---- MODULE Spec2Model ----
(***************************************************************************)
(* Verification model of the fire-solution core of Korner:                 *)
(*   weapon.py       Weapon.v0_for_charge                                  *)
(*   table_cache.py  TableSet, TableManager, fast_solve                    *)
(*   solver.py       _eval, suggest_best                                   *)
(*   ballistics.py   simulate_rk4, closest_approach, impact_range          *)
(*   ui.py           compute_selected with the no-fire areas, _web_poll    *)
(*                                                                         *)
(* Elevations are Python floats in mil.  They are kept here as integers in *)
(* units of 1/ElevScale mil, which represents every value np.arange and    *)
(* np.linspace produce from integer table elevations exactly (four rounds  *)
(* of /10 and the windows 50, 22.5, 10.125, 6 need five decimals).         *)
(***************************************************************************)
EXTENDS Integers, Sequences, FiniteSets, TLC

VARIABLES
    weapon,      \* Weapon: [base_speed, charges]                (weapon.py:50-52)
    tm,          \* TableManager: [direct, low, high, folder]    (table_cache.py:28-32)
    loadStatus,  \* how the last load_folder call ended: "none" | "ok" | "error"
    v0Call,      \* the last stand-alone v0_for_charge call: None or Some([id, raised, value])
    pc,          \* position of the one (synchronous) solver call
    req,         \* the SolveRequest of the call in progress
    tables,      \* suggest_best's third argument: TRUE = the TableManager, FALSE = None
    fs,          \* fast_solve's frame: sets, si, ci, cid, v0, center, window, rnd, k, local, best
    fastStatus,  \* how fast_solve ended: "not_called" | "running" | "returned" | "raised"
    fastResult,  \* what fast_solve returned (None or Some(ShotResult))
    bf,          \* brute-force frame: ranges, ci, cid, v0, bi, em, best
    outcome,     \* how suggest_best ended: "none" | "returned" | "raised"
    result,      \* what suggest_best returned (None or Some(ShotResult))
    probe,       \* call-count instrumentation of the call in progress
    parked,      \* the frame of a second solver invocation while it is not running
    sim,         \* simulate_rk4's frame: dt, ttl, vy0, wind, nmax, i, t, x, y, z, lasty, i_end, status
    fn,          \* one call of a pure routine: its name, its arguments and what it returned
    ui,          \* MainWindow.compute_selected's frame: guns, zones, option, lines, solver calls
    web          \* the _web_poll timer callback, the fetch worker and the fields they share

vars == <<weapon, tm, loadStatus, v0Call, pc, req, tables, fs, fastStatus,
          fastResult, bf, outcome, result, probe, parked, sim, fn, ui, web>>

----------------------------------------------------------------------------
(* Optional values: Python's None and a present value.                     *)
None == <<>>
Some(x) == <<x>>
IsNone(o) == Len(o) = 0
Val(o) == o[1]

Abs(x) == IF x < 0 THEN -x ELSE x
Min2(a, b) == IF a < b THEN a ELSE b
Max2(a, b) == IF a > b THEN a ELSE b

----------------------------------------------------------------------------
(* Bounds of the model.                                                    *)

\* Largest charge catalog: the catalogs are {1..n}, n = 0..MaxCharges.
MaxCharges == 2

(* Units.                                                                  *)
ElevScale == 10 ^ 5
Mil(m) == m * ElevScale

(* Program constants.                                                      *)
\* config.MAX_ELEVATION_MIL and config.BASE_V0 (config.py is not among the
\* sources): a quarter of the 6400-mil circle, and a base muzzle speed.
MAX_ELEVATION_MIL == 1600
BASE_V0 == 10
elev_step == 25          \* solver.py:30
DirectTop == 250         \* solver.py:32
ArcSplit == 650          \* solver.py:34,36,38
WindowStart == 50        \* table_cache.py:71
WindowFloor == 6         \* table_cache.py:84
ShrinkPct == 45          \* table_cache.py:84   (0.45)
Rounds_five == 4 + 1     \* one refinement round too many
Rounds == 4              \* table_cache.py:72
Samples == 11            \* table_cache.py:75
WindLen == 3             \* ballistics.py:16    (wx, wy, wz = wind)
GroundGuard_none == 5 - 5
GroundGuard == 5         \* ballistics.py:47    (i>5)

----------------------------------------------------------------------------
(* Weapon (weapon.py:49-55).                                               *)

\* The multiplier stored for charge c, in tenths (CHARGE_COEFF of config.py).
Coeff(c) == 4 + 3 * c
Catalog(n) == [c \in 1..n |-> Coeff(c)]
Catalogs == {Catalog(n) : n \in 0..MaxCharges}

\* Weapon.__init__
NewWeapon(cat) == [base_speed |-> BASE_V0, charges |-> cat]

\* Weapon.v0_for_charge: self.charges[int(charge)] raises KeyError for an id
\* that is not a key; int() is the identity on the integer ids used here.
V0Raises(w, charge) == charge \notin DOMAIN w.charges
v0_for_charge_sum(w, charge) == w.base_speed + w.charges[charge]
v0_for_charge(w, charge) == w.base_speed * w.charges[charge]

----------------------------------------------------------------------------
(* Integrator + closest approach, as the solvers see it (solver.py:8-17,   *)
(* table_cache.py:43-50).  The floating-point trajectory is represented by *)
(* its outcome: the miss of a shot is the distance between the target      *)
(* range and the range the shot reaches, a deterministic function of       *)
(* (v0, elevation) with the parabola through 0, 800 and 1600 mil standing  *)
(* for sin(2*elevation); it has a low and a high solution and ties.        *)

\* sin(2*elevation) in permille, for a whole-mil elevation m.
Shape(m) ==
    (m * (MAX_ELEVATION_MIL - m) * 1000) \div ((MAX_ELEVATION_MIL * MAX_ELEVATION_MIL) \div 4)

\* Ground range (m) of a shot; em in 1/ElevScale mil.
RangeOf(v0, em) == (v0 * v0 * Shape(em \div ElevScale)) \div 10000

\* simulate_rk4 -> _deriv unpacks "wx, wy, wz = wind" (ballistics.py:16): a
\* wind tuple of any other length raises ValueError in the first stage.
EvalRaises(rq) == Len(rq.wind_ff) # WindLen

\* _eval: a fresh ShotResult with the placeholder charge 0.
Eval(rq, v0, em) ==
    [charge |-> 0, elev_mil |-> em, v0 |-> v0,
     miss_total_m |-> Abs(RangeOf(v0, em) - rq.target_x_m)]

\* "r.charge=cid" (solver.py:44, table_cache.py:78)
Stamp_zero(r, cid) == r
Stamp_speed(r, cid) == [r EXCEPT !.charge = cid, !.v0 = cid]
Stamp(r, cid) == [r EXCEPT !.charge = cid]

\* "best is None or r.miss_total_m < best.miss_total_m"
Better_ties(r, b) == IsNone(b) \/ r.miss_total_m <= Val(b).miss_total_m
Better_first(r, b) == IsNone(b)
Better_flipped(r, b) == IsNone(b) \/ r.miss_total_m > Val(b).miss_total_m
Better(r, b) == IsNone(b) \/ r.miss_total_m < Val(b).miss_total_m

\* "best is not None and best.miss_total_m <= req.tolerance_m"
ToleranceMet_strict(b, rq) == ~IsNone(b) /\ Val(b).miss_total_m < rq.tolerance_m
ToleranceMet(b, rq) == ~IsNone(b) /\ Val(b).miss_total_m <= rq.tolerance_m

----------------------------------------------------------------------------
(* Requests (models.py:4-14).  wind_ff is the tuple the caller built: the  *)
(* integrator unpacks three components, ui.py:674-679 passes the two that  *)
(* rotate_world_to_fireframe returns.                                      *)
Targets == {390, 800, 1200}
Tolerances == {0, 8}
Arcs == {"LOW", "HIGH", "ANY"}
Winds == {<<0, 0>>, <<0, 0, 0>>}
Requests ==
    [target_x_m : Targets, tolerance_m : Tolerances, arc : Arcs,
     direct_fire : BOOLEAN, wind_ff : Winds]
NoRequest ==
    [target_x_m |-> 0, tolerance_m |-> 0, arc |-> "LOW", direct_fire |-> FALSE,
     wind_ff |-> <<0, 0, 0>>]

----------------------------------------------------------------------------
(* Table files and TableSet (table_cache.py:9-25).                         *)

Steps(lo, hi, step) == [i \in 1..((hi - lo) \div step + 1) |-> lo + (i - 1) * step]

\* The elevation samples (whole mil) of the table of one arc.
TableElev(kind) ==
    CASE kind = "direct" -> Steps(0, DirectTop, 50)
      [] kind = "low"    -> Steps(0, ArcSplit, 50)
      [] OTHER           -> Steps(ArcSplit, MAX_ELEVATION_MIL, 50)

\* An .npz file: the arrays it holds.  ranges maps a charge id c to the
\* array range_c<c>, precomputed offline for the nominal charge.
NpzFile(kind, ids, rangeIds) ==
    [exists |-> TRUE, keys |-> {"elev_mil", "charges_id"},
     elev_mil |-> TableElev(kind), charges_id |-> ids,
     ranges |-> [c \in rangeIds |->
                    [i \in DOMAIN TableElev(kind) |->
                        RangeOf(BASE_V0 * Coeff(c), Mil(TableElev(kind)[i]))]]]
MissingFile ==
    [exists |-> FALSE, keys |-> {}, elev_mil |-> <<>>, charges_id |-> <<>>,
     ranges |-> <<>>]
NoChargesFile(kind) == [NpzFile(kind, <<>>, {}) EXCEPT !.keys = {"elev_mil"}]

\* A table computed for a mount that elevates past MAX_ELEVATION_MIL: two
\* elevation samples more than a window beyond it, with the ranges of charge 1.
SteepFile ==
    [exists |-> TRUE, keys |-> {"elev_mil", "charges_id"},
     elev_mil |-> <<MAX_ELEVATION_MIL + 100, MAX_ELEVATION_MIL + 150>>,
     charges_id |-> <<1>>, ranges |-> (1 :> <<800, 390>>)]

Kinds == <<"direct", "low", "high">>
Folders == {"tables", "broken", "alt", "steep"}

\* The table directories on disk.
\*   tables: three complete files for charges 1 and 2;
\*   broken: ballistic_low.npz is missing, ballistic_high.npz has no charges_id;
\*   alt:    direct lists no charge, low lists charge 2 only, high lists
\*           charges 1 and 2 but holds no range_c2.
\*   steep:  direct and low list no charge, high is SteepFile.
Disk(folder, kind) ==
    CASE folder = "tables" -> NpzFile(kind, <<1, 2>>, {1, 2})
      [] folder = "steep" ->
            IF kind = "high" THEN SteepFile ELSE NpzFile(kind, <<>>, {})
      [] folder = "broken" ->
            IF kind = "direct" THEN NpzFile(kind, <<2>>, {2})
            ELSE IF kind = "low" THEN MissingFile
            ELSE NoChargesFile(kind)
      [] OTHER ->
            IF kind = "direct" THEN NpzFile(kind, <<>>, {})
            ELSE IF kind = "low" THEN NpzFile(kind, <<2>>, {2})
            ELSE NpzFile(kind, <<1, 2>>, {1})

\* TableSet.__init__ raises when np.load fails or a read key is absent.
\* Only elev_mil and charges_id are read; the range arrays stay in the lazily
\* read archive self.npz.
TableSetRaises(f) ==
    ~f.exists \/ "elev_mil" \notin f.keys \/ "charges_id" \notin f.keys
TableSet(folder, kind) ==
    [path |-> <<folder, kind>>, elev |-> Disk(folder, kind).elev_mil,
     charges |-> Disk(folder, kind).charges_id, npz |-> Disk(folder, kind).ranges]

\* First index of the minimum of |ranges - target| (np.argmin).
ArgMin_last(ranges, target) ==
    CHOOSE i \in DOMAIN ranges :
        \A j \in DOMAIN ranges :
            /\ Abs(ranges[i] - target) <= Abs(ranges[j] - target)
            /\ (j > i => Abs(ranges[j] - target) > Abs(ranges[i] - target))
ArgMin(ranges, target) ==
    CHOOSE i \in DOMAIN ranges :
        \A j \in DOMAIN ranges :
            /\ Abs(ranges[i] - target) <= Abs(ranges[j] - target)
            /\ (j < i => Abs(ranges[j] - target) > Abs(ranges[i] - target))

\* TableSet.guess_elev_for_range: KeyError without range_c<id>, ValueError on
\* an empty array, IndexError when the index is past the elevation array.
GuessRaises(ts, charge_id, target_range) ==
    \/ charge_id \notin DOMAIN ts.npz
    \/ Len(ts.npz[charge_id]) = 0
    \/ ArgMin(ts.npz[charge_id], target_range) > Len(ts.elev)
guess_elev_for_range(ts, charge_id, target_range) ==
    Mil(ts.elev[ArgMin(ts.npz[charge_id], target_range)])

----------------------------------------------------------------------------
(* TableManager (table_cache.py:27-41).                                    *)

NewTableManager == [direct |-> None, low |-> None, high |-> None, folder |-> ""]

\* TableManager.loaded
loaded_any(m) == ~IsNone(m.direct) \/ ~IsNone(m.low) \/ ~IsNone(m.high)
loaded(m) == ~IsNone(m.direct) /\ ~IsNone(m.low) /\ ~IsNone(m.high)

\* How far load_folder gets: the number of TableSets it has assigned when it
\* returns or raises (the assignments run direct, low, high).
LoadedPrefix(folder) ==
    IF TableSetRaises(Disk(folder, "direct")) THEN 0
    ELSE IF TableSetRaises(Disk(folder, "low")) THEN 1
    ELSE IF TableSetRaises(Disk(folder, "high")) THEN 2
    ELSE 3

\* TableManager.load_folder, with the fields it has written when it ends.
load_folder(m, folder) ==
    [folder |-> folder,
     direct |-> IF LoadedPrefix(folder) >= 1 THEN Some(TableSet(folder, "direct")) ELSE m.direct,
     low    |-> IF LoadedPrefix(folder) >= 2 THEN Some(TableSet(folder, "low")) ELSE m.low,
     high   |-> IF LoadedPrefix(folder) >= 3 THEN Some(TableSet(folder, "high")) ELSE m.high]
load_folder_raises(folder) == LoadedPrefix(folder) < 3

----------------------------------------------------------------------------
(* suggest_best, brute-force part (solver.py:29-49).                       *)

\* "sorted(weapon.charges.keys())"
RECURSIVE SortedSeq(_)
SortedSeq(S) ==
    IF S = {} THEN <<>>
    ELSE LET lo == CHOOSE x \in S : \A y \in S : x <= y
         IN <<lo>> \o SortedSeq(S \ {lo})
RECURSIVE SortedSeqDesc(_)
SortedSeqDesc(S) ==
    IF S = {} THEN <<>>
    ELSE LET hi == CHOOSE x \in S : \A y \in S : x >= y
         IN <<hi>> \o SortedSeqDesc(S \ {hi})
SortedCharges_desc(w) == SortedSeqDesc(DOMAIN w.charges)
SortedCharges(w) == SortedSeq(DOMAIN w.charges)

\* The elevation bands of the request's mode (solver.py:31-38).
Bands(rq) ==
    IF rq.direct_fire THEN <<[emin |-> Mil(0), emax |-> Mil(DirectTop)]>>
    ELSE IF rq.arc = "LOW" THEN <<[emin |-> Mil(0), emax |-> Mil(ArcSplit)]>>
    ELSE IF rq.arc = "HIGH" THEN <<[emin |-> Mil(ArcSplit), emax |-> Mil(MAX_ELEVATION_MIL)]>>
    ELSE <<[emin |-> Mil(0), emax |-> Mil(ArcSplit)],
           [emin |-> Mil(ArcSplit), emax |-> Mil(MAX_ELEVATION_MIL)]>>

\* np.arange(emin, emax+1e-6, elev_step) still has an element at em: on the
\* 1/ElevScale lattice em < emax + 1e-6 is em <= emax.
InArange_open(em, band) == em <= band.emax + Mil(elev_step)
InArange_excl(em, band) == em < band.emax
InArange(em, band) == em <= band.emax

----------------------------------------------------------------------------
(* fast_solve (table_cache.py:52-87).                                      *)

\* The table sets consulted for the request's mode (table_cache.py:56-63).
\* Each element is the manager's field: a TableSet, or None.
SelectSets(m, rq) ==
    IF rq.direct_fire THEN <<m.direct>>
    ELSE IF rq.arc = "LOW" THEN <<m.low>>
    ELSE IF rq.arc = "HIGH" THEN <<m.high>>
    ELSE <<m.low, m.high>>

\* start, end and the k-th (1-based) of the 11 samples of np.linspace.
WinStart(center, window) == Max2(Mil(0), center - window)
WinEnd(center, window) == Min2(Mil(MAX_ELEVATION_MIL), center + window)
Linspace(start, end, k) ==
    IF k = Samples THEN end ELSE start + ((k - 1) * (end - start)) \div (Samples - 1)

\* "window=max(6.0, window*0.45)"
Shrink_nofloor(window) == (window * ShrinkPct) \div 100
Shrink(window) == Max2(Mil(WindowFloor), (window * ShrinkPct) \div 100)

----------------------------------------------------------------------------
(* simulate_rk4 (ballistics.py:25-51).  Times are integers in a fixed unit *)
(* (a fraction of a second); the altitude of the i-th sample is given by   *)
(* the drag-free closed form in units where g/2 is HalfG, plus the pull of *)
(* a vertical air stream.                                                  *)

\* Longest time_to_live tried, in time units.
MaxTtl == 8

\* config.G / 2 in the model's units (config.py is not among the sources).
HalfG == 1

\* math.ceil(a/b) for positive integers.
CeilDiv(a, b) == (a + b - 1) \div b

\* "nmax = int(max(1, math.ceil(ttl/dt)))"
StepBudget_plus(ttl, dt) == Max2(1, CeilDiv(ttl, dt)) + 1
StepBudget(ttl, dt) == Max2(1, CeilDiv(ttl, dt))

\* s[1] after the step that ends at time t, for the launch speed vy0.
Height(vy0, t) == vy0 * t - HalfG * t * t

\* What the drag towards the air stream adds to s[1]: "rvy = vy - wy",
\* "ay = -G - k*vrel*rvy".  Nothing without an updraught; with one the shell
\* is slowed, held and then carried upwards.
Lift(wind, t) == (wind[2] * t * t * t) \div 8

\* s[0] and s[2] after the step that ends at time t: the horizontal launch
\* speed vx0 in the model's units, and the drift with the cross wind.
Vx0 == 3
Downrange(t) == Vx0 * t
Drift(wind, t) == wind[3] * t

\* Wind tuples given to the integrator: those of the requests, an updraught
\* and a cross wind.
SimWinds == Winds \cup {<<0, 1, 0>>, <<0, 0, 1>>}

\* The frame of simulate_rk4 after lines 28-38.
SimStart_late(dt, ttl, vy0, wind, stop_on_ground) ==
    [dt |-> dt, ttl |-> ttl, vy0 |-> vy0, wind |-> wind,
     stop_on_ground |-> stop_on_ground, nmax |-> StepBudget(ttl, dt), i |-> 1,
     t |-> <<dt>>, x |-> <<0>>, y |-> <<0>>, z |-> <<0>>, lasty |-> 0,
     i_end |-> StepBudget(ttl, dt),
     status |-> "running", tof |-> 0]
SimStart(dt, ttl, vy0, wind, stop_on_ground) ==
    [dt |-> dt, ttl |-> ttl, vy0 |-> vy0, wind |-> wind,
     stop_on_ground |-> stop_on_ground, nmax |-> StepBudget(ttl, dt), i |-> 1,
     t |-> <<0>>, x |-> <<0>>, y |-> <<0>>, z |-> <<0>>, lasty |-> 0,
     i_end |-> StepBudget(ttl, dt),
     status |-> "running", tof |-> 0]
NoSim ==
    [dt |-> 0, ttl |-> 0, vy0 |-> 0, wind |-> <<>>, stop_on_ground |-> FALSE,
     nmax |-> 0, i |-> 0, t |-> <<>>, x |-> <<>>, y |-> <<>>, z |-> <<>>, lasty |-> 0,
     i_end |-> 0,
     status |-> "none", tof |-> 0]

\* The inputs tried: dt > 0, ttl >= dt, a barrel raised or depressed.
SimInputs ==
    UNION {{SimStart(dt, ttl, vy0, wind, sog) :
                ttl \in dt..MaxTtl, vy0 \in {-1, 2, 7, 30}, wind \in SimWinds,
                sog \in BOOLEAN} : dt \in 1..3}

----------------------------------------------------------------------------
(* The state machine.                                                      *)

NoFrame ==
    [sets |-> <<>>, si |-> 0, ci |-> 0, cid |-> 0, v0 |-> 0, center |-> 0,
     window |-> 0, rnd |-> 0, k |-> 0, local |-> None, best |-> None]
NoBrute ==
    [ranges |-> <<>>, ci |-> 0, cid |-> 0, v0 |-> 0, bi |-> 0, em |-> 0, best |-> None]

\* Instrumentation of one suggest_best call: integrator calls made by
\* fast_solve and by the brute-force scan, weapon and table lookups made by
\* fast_solve, and the least miss among the candidates each has evaluated.
NoProbe ==
    [simFast |-> 0, simBrute |-> 0, v0Fast |-> 0, guessFast |-> 0,
     minFast |-> None, minBrute |-> None]
MinSeen(o, miss) == IF IsNone(o) \/ miss < Val(o) THEN Some(miss) ELSE o

callVars == <<req, tables, fs, fastStatus, fastResult, bf, outcome, result, probe>>

\* The frame of a solver invocation that has not started.
IdleFrame ==
    [pc |-> "idle", req |-> NoRequest, tables |-> FALSE, fs |-> NoFrame,
     fastStatus |-> "not_called", fastResult |-> None, bf |-> NoBrute,
     outcome |-> "none", result |-> None, probe |-> NoProbe]

\* No pure routine has been called, no computation requested, no poll made.
NoCall == [op |-> "idle"]

NoUi == [pc |-> "idle"]

NoWeb == [pc |-> "idle"]

Init ==
    /\ weapon \in {NewWeapon(cat) : cat \in Catalogs}
    /\ tm = NewTableManager
    /\ loadStatus = "none"
    /\ v0Call = None
    /\ pc = "idle"
    /\ req = NoRequest
    /\ tables = FALSE
    /\ fs = NoFrame
    /\ fastStatus = "not_called"
    /\ fastResult = None
    /\ bf = NoBrute
    /\ outcome = "none"
    /\ result = None
    /\ probe = NoProbe
    /\ parked = IdleFrame
    /\ fn = NoCall
    /\ ui = NoUi
    /\ web = NoWeb
    /\ sim = NoSim

\* TableManager.load_folder(folder), as ui.py:487 and ui.py:524 call it
\* (the caller catches the exception).
LoadFolder(folder) ==
    /\ pc = "idle"
    /\ UNCHANGED <<parked, sim, fn, ui, web>>
    /\ tm' = load_folder(tm, folder)
    /\ loadStatus' = IF load_folder_raises(folder) THEN "error" ELSE "ok"
    /\ UNCHANGED <<weapon, v0Call, pc, callVars>>

\* A stand-alone Weapon.v0_for_charge(id).
V0Query(id) ==
    /\ pc = "idle"
    /\ UNCHANGED <<parked, sim, fn, ui, web>>
    /\ v0Call' = Some([id |-> id, raised |-> V0Raises(weapon, id),
                       value |-> IF V0Raises(weapon, id) THEN 0
                                 ELSE v0_for_charge(weapon, id)])
    /\ UNCHANGED <<weapon, tm, loadStatus, pc, callVars>>

\* suggest_best(rq, weapon, tables), up to the call of fast_solve
\* (solver.py:19-23).
SuggestBest(rq, tb) ==
    /\ pc = "idle"
    /\ UNCHANGED <<parked, sim, fn, ui, web>>
    /\ req' = rq
    /\ tables' = tb
    /\ pc' = IF tb THEN "fast_entry" ELSE "brute_init"
    /\ fastStatus' = IF tb THEN "running" ELSE "not_called"
    /\ fs' = NoFrame
    /\ fastResult' = None
    /\ bf' = NoBrute
    /\ outcome' = "none"
    /\ result' = None
    /\ probe' = NoProbe
    /\ v0Call' = None
    /\ UNCHANGED <<weapon, tm, loadStatus>>

\* fast_solve, lines 53-65: the loaded() guard and the choice of the sets.
FastEntry ==
    /\ pc = "fast_entry"
    /\ UNCHANGED <<parked, sim, fn, ui, web>>
    /\ IF ~loaded(tm)
       THEN /\ fastStatus' = "returned"
            /\ fastResult' = None
            /\ pc' = "fast_exit"
            /\ fs' = fs
       ELSE /\ fs' = [NoFrame EXCEPT !.sets = SelectSets(tm, req), !.si = 1, !.ci = 1]
            /\ pc' = "fast_charge"
            /\ UNCHANGED <<fastStatus, fastResult>>
    /\ UNCHANGED <<weapon, tm, loadStatus, v0Call, req, tables, bf, outcome, result, probe>>

\* fast_solve, lines 66-72 and 87: the heads of the two for loops, the
\* lookups for the next charge, and the final "return best".
FastCharge ==
    /\ pc = "fast_charge"
    /\ UNCHANGED <<parked, sim, fn, ui, web>>
    /\ IF fs.si > Len(fs.sets)
       THEN /\ fastStatus' = "returned"
            /\ fastResult' = fs.best
            /\ pc' = "fast_exit"
            /\ UNCHANGED <<fs, probe>>
       ELSE IF IsNone(fs.sets[fs.si])
       THEN \* "ts.charges" of None: AttributeError
            /\ fastStatus' = "raised"
            /\ pc' = "fast_exit"
            /\ UNCHANGED <<fs, fastResult, probe>>
       ELSE IF fs.ci > Len(Val(fs.sets[fs.si]).charges)
       THEN /\ fs' = [fs EXCEPT !.si = fs.si + 1, !.ci = 1]
            /\ UNCHANGED <<pc, fastStatus, fastResult, probe>>
       ELSE LET ts == Val(fs.sets[fs.si])
                cid == ts.charges[fs.ci]
            IN IF V0Raises(weapon, cid)
               THEN /\ fastStatus' = "raised"
                    /\ pc' = "fast_exit"
                    /\ probe' = [probe EXCEPT !.v0Fast = @ + 1]
                    /\ UNCHANGED <<fs, fastResult>>
               ELSE IF GuessRaises(ts, cid, req.target_x_m)
               THEN /\ fastStatus' = "raised"
                    /\ pc' = "fast_exit"
                    /\ probe' = [probe EXCEPT !.v0Fast = @ + 1, !.guessFast = @ + 1]
                    /\ UNCHANGED <<fs, fastResult>>
               ELSE /\ fs' = [fs EXCEPT !.cid = cid,
                                        !.v0 = v0_for_charge(weapon, cid),
                                        !.center = guess_elev_for_range(ts, cid, req.target_x_m),
                                        !.window = Mil(WindowStart),
                                        !.rnd = 1, !.k = 1, !.local = None]
                    /\ probe' = [probe EXCEPT !.v0Fast = @ + 1, !.guessFast = @ + 1]
                    /\ pc' = "fast_eval"
                    /\ UNCHANGED <<fastStatus, fastResult>>
    /\ UNCHANGED <<weapon, tm, loadStatus, v0Call, req, tables, bf, outcome, result>>

\* fast_solve, lines 73-80: one sample of the round.
FastEval ==
    /\ pc = "fast_eval"
    /\ UNCHANGED <<parked, sim, fn, ui, web>>
    /\ LET em == Linspace(WinStart(fs.center, fs.window), WinEnd(fs.center, fs.window), fs.k)
           r == Stamp(Eval(req, fs.v0, em), fs.cid)
       IN IF EvalRaises(req)
          THEN /\ fastStatus' = "raised"
               /\ pc' = "fast_exit"
               /\ probe' = [probe EXCEPT !.simFast = @ + 1]
               /\ fs' = fs
          ELSE /\ fs' = [fs EXCEPT !.local = IF Better(r, fs.local) THEN Some(r) ELSE @,
                                   !.k = @ + 1]
               /\ probe' = [probe EXCEPT !.simFast = @ + 1,
                                         !.minFast = MinSeen(@, r.miss_total_m)]
               /\ pc' = IF fs.k = Samples THEN "fast_round" ELSE "fast_eval"
               /\ fastStatus' = fastStatus
    /\ UNCHANGED <<weapon, tm, loadStatus, v0Call, req, tables, fastResult, bf, outcome, result>>

\* fast_solve, lines 81-86: the end of a round.
FastRound ==
    /\ pc = "fast_round"
    /\ UNCHANGED <<parked, sim, fn, ui, web>>
    /\ LET local == Val(fs.local)
           best == IF Better(local, fs.best) THEN fs.local ELSE fs.best
       IN IF ToleranceMet(best, req)
          THEN /\ fastStatus' = "returned"
               /\ fastResult' = best
               /\ pc' = "fast_exit"
               /\ fs' = [fs EXCEPT !.best = best, !.center = local.elev_mil,
                                   !.window = Shrink(fs.window)]
          ELSE /\ fs' = [fs EXCEPT !.best = best, !.center = local.elev_mil,
                                   !.window = Shrink(fs.window),
                                   !.rnd = IF fs.rnd = Rounds THEN @ ELSE @ + 1,
                                   !.k = 1, !.local = None,
                                   !.ci = IF fs.rnd = Rounds THEN @ + 1 ELSE @]
               /\ pc' = IF fs.rnd = Rounds THEN "fast_charge" ELSE "fast_eval"
               /\ UNCHANGED <<fastStatus, fastResult>>
    /\ UNCHANGED <<weapon, tm, loadStatus, v0Call, req, tables, bf, outcome, result, probe>>

\* suggest_best, lines 23-27: what it does with fast_solve's end.
FastExit ==
    /\ pc = "fast_exit"
    /\ UNCHANGED <<parked, sim, fn, ui, web>>
    /\ IF fastStatus = "returned" /\ ~IsNone(fastResult)
       THEN /\ outcome' = "returned"
            /\ result' = fastResult
            /\ pc' = "done"
       ELSE /\ pc' = "brute_init"
            /\ UNCHANGED <<outcome, result>>
    /\ UNCHANGED <<weapon, tm, loadStatus, v0Call, req, tables, fs, fastStatus, fastResult, bf, probe>>

\* suggest_best, lines 29-38.
BruteInit ==
    /\ pc = "brute_init"
    /\ UNCHANGED <<parked, sim, fn, ui, web>>
    /\ bf' = [NoBrute EXCEPT !.ranges = Bands(req), !.ci = 1]
    /\ pc' = "brute_charge"
    /\ UNCHANGED <<weapon, tm, loadStatus, v0Call, req, tables, fs, fastStatus, fastResult,
                   outcome, result, probe>>

\* suggest_best, lines 40-42 and 49: the head of the charge loop, entering
\* the first band, and the final "return best".
BruteCharge ==
    /\ pc = "brute_charge"
    /\ UNCHANGED <<parked, sim, fn, ui, web>>
    /\ IF bf.ci > Len(SortedCharges(weapon))
       THEN /\ outcome' = "returned"
            /\ result' = bf.best
            /\ pc' = "done"
            /\ bf' = bf
       ELSE LET cid == SortedCharges(weapon)[bf.ci]
            IN IF V0Raises(weapon, cid)
               THEN /\ outcome' = "raised"
                    /\ pc' = "done"
                    /\ UNCHANGED <<bf, result>>
               ELSE /\ bf' = [bf EXCEPT !.cid = cid, !.v0 = v0_for_charge(weapon, cid),
                                        !.bi = 1, !.em = bf.ranges[1].emin]
                    /\ pc' = IF InArange(bf.ranges[1].emin, bf.ranges[1])
                             THEN "brute_eval" ELSE "brute_check"
                    /\ UNCHANGED <<outcome, result>>
    /\ UNCHANGED <<weapon, tm, loadStatus, v0Call, req, tables, fs, fastStatus, fastResult, probe>>

\* suggest_best, lines 43-46: one candidate of the band.
BruteEval ==
    /\ pc = "brute_eval"
    /\ UNCHANGED <<parked, sim, fn, ui, web>>
    /\ LET r == Stamp(Eval(req, bf.v0, bf.em), bf.cid)
           next == bf.em + Mil(elev_step)
       IN IF EvalRaises(req)
          THEN /\ outcome' = "raised"
               /\ pc' = "done"
               /\ probe' = [probe EXCEPT !.simBrute = @ + 1]
               /\ bf' = bf
          ELSE /\ bf' = [bf EXCEPT !.best = IF Better(r, bf.best) THEN Some(r) ELSE @,
                                   !.em = next]
               /\ probe' = [probe EXCEPT !.simBrute = @ + 1,
                                         !.minBrute = MinSeen(@, r.miss_total_m)]
               /\ pc' = IF InArange(next, bf.ranges[bf.bi]) THEN "brute_eval" ELSE "brute_check"
               /\ outcome' = outcome
    /\ UNCHANGED <<weapon, tm, loadStatus, v0Call, req, tables, fs, fastStatus, fastResult, result>>

\* suggest_best, lines 47-48, and the step to the next band or charge.
BruteCheck_after ==
    /\ pc = "brute_check"
    /\ UNCHANGED <<parked, sim, fn, ui, web>>
    /\ IF bf.bi < Len(bf.ranges)
       THEN /\ bf' = [bf EXCEPT !.bi = @ + 1, !.em = bf.ranges[bf.bi + 1].emin]
            /\ pc' = IF InArange(bf.ranges[bf.bi + 1].emin, bf.ranges[bf.bi + 1])
                     THEN "brute_eval" ELSE "brute_check"
            /\ UNCHANGED <<outcome, result>>
       ELSE IF ToleranceMet(bf.best, req)
       THEN /\ outcome' = "returned"
            /\ result' = bf.best
            /\ pc' = "done"
            /\ bf' = bf
       ELSE /\ bf' = [bf EXCEPT !.ci = @ + 1]
            /\ pc' = "brute_charge"
            /\ UNCHANGED <<outcome, result>>
    /\ UNCHANGED <<weapon, tm, loadStatus, v0Call, req, tables, fs, fastStatus, fastResult, probe>>
BruteCheck ==
    /\ pc = "brute_check"
    /\ UNCHANGED <<parked, sim, fn, ui, web>>
    /\ IF ToleranceMet(bf.best, req)
       THEN /\ outcome' = "returned"
            /\ result' = bf.best
            /\ pc' = "done"
            /\ bf' = bf
       ELSE IF bf.bi < Len(bf.ranges)
       THEN /\ bf' = [bf EXCEPT !.bi = @ + 1, !.em = bf.ranges[bf.bi + 1].emin]
            /\ pc' = IF InArange(bf.ranges[bf.bi + 1].emin, bf.ranges[bf.bi + 1])
                     THEN "brute_eval" ELSE "brute_check"
            /\ UNCHANGED <<outcome, result>>
       ELSE /\ bf' = [bf EXCEPT !.ci = @ + 1]
            /\ pc' = "brute_charge"
            /\ UNCHANGED <<outcome, result>>
    /\ UNCHANGED <<weapon, tm, loadStatus, v0Call, req, tables, fs, fastStatus, fastResult, probe>>

\* The caller takes the result; the next call starts from idle.
Return ==
    /\ pc = "done"
    /\ UNCHANGED <<parked, sim, fn, ui, web>>
    /\ pc' = "idle"
    /\ req' = NoRequest
    /\ tables' = FALSE
    /\ fs' = NoFrame
    /\ fastStatus' = "not_called"
    /\ fastResult' = None
    /\ bf' = NoBrute
    /\ outcome' = "none"
    /\ result' = None
    /\ probe' = NoProbe
    /\ UNCHANGED <<weapon, tm, loadStatus, v0Call>>

Next ==
    \/ \E folder \in Folders : LoadFolder(folder)
    \/ \E id \in 0..(MaxCharges + 1) : V0Query(id)
    \/ \E rq \in Requests, tb \in BOOLEAN : SuggestBest(rq, tb)
    \/ FastEntry
    \/ FastCharge
    \/ FastEval
    \/ FastRound
    \/ FastExit
    \/ BruteInit
    \/ BruteCharge
    \/ BruteEval
    \/ BruteCheck
    \/ Return

Spec == Init /\ [][Next]_vars

\* A call of fast_solve runs to its end: the solver is synchronous, nothing
\* suspends it between two of its steps.
FastStep == FastEntry \/ FastCharge \/ FastEval \/ FastRound
FairSpec == Spec /\ WF_vars(FastStep)

----------------------------------------------------------------------------
(* Two solver invocations sharing one Weapon and one loaded TableManager.  *)
(* The invocation that is not running keeps its locals in parked; Switch   *)
(* hands the processor to it, at any point of either call.                 *)

Switch ==
    /\ parked' = [pc |-> pc, req |-> req, tables |-> tables, fs |-> fs,
                  fastStatus |-> fastStatus, fastResult |-> fastResult, bf |-> bf,
                  outcome |-> outcome, result |-> result, probe |-> probe]
    /\ pc' = parked.pc
    /\ req' = parked.req
    /\ tables' = parked.tables
    /\ fs' = parked.fs
    /\ fastStatus' = parked.fastStatus
    /\ fastResult' = parked.fastResult
    /\ bf' = parked.bf
    /\ outcome' = parked.outcome
    /\ result' = parked.result
    /\ probe' = parked.probe
    /\ UNCHANGED <<weapon, tm, loadStatus, v0Call, sim, fn, ui, web>>

\* The requests of the interleaved calls.
SharedRequests ==
    {rq \in Requests :
        /\ rq.target_x_m = 800 /\ rq.direct_fire /\ rq.arc = "LOW"
        /\ (Len(rq.wind_ff) = WindLen \/ rq.tolerance_m = 0)}

\* Loading has completed before the calls start.
SharedInit ==
    /\ weapon \in {NewWeapon(Catalog(n)) : n \in 1..MaxCharges}
    /\ tm = load_folder(NewTableManager, "tables")
    /\ loadStatus = "ok"
    /\ v0Call = None
    /\ pc = "idle"
    /\ req = NoRequest
    /\ tables = FALSE
    /\ fs = NoFrame
    /\ fastStatus = "not_called"
    /\ fastResult = None
    /\ bf = NoBrute
    /\ outcome = "none"
    /\ result = None
    /\ probe = NoProbe
    /\ parked = IdleFrame
    /\ fn = NoCall
    /\ ui = NoUi
    /\ web = NoWeb
    /\ sim = NoSim

SharedNext ==
    \/ \E rq \in SharedRequests, tb \in BOOLEAN : SuggestBest(rq, tb)
    \/ FastEntry
    \/ FastCharge
    \/ FastEval
    \/ FastRound
    \/ FastExit
    \/ BruteInit
    \/ BruteCharge
    \/ BruteEval
    \/ BruteCheck
    \/ Return
    \/ Switch

SharedSpec == SharedInit /\ [][SharedNext]_vars

----------------------------------------------------------------------------
(* simulate_rk4 on its own: the inputs are drawn at the start.             *)

\* ballistics.py:39-50: one pass of the loop.
SimStep ==
    /\ sim.status = "running"
    /\ IF Len(sim.wind) # WindLen
       THEN sim' = [sim EXCEPT !.status = "raised"]
       ELSE LET t == sim.i * sim.dt
                y == Height(sim.vy0, t) + Lift(sim.wind, t)
                hit == /\ sim.stop_on_ground /\ sim.i > GroundGuard
                       /\ y < 0 /\ y - sim.lasty < 0
            IN sim' = [sim EXCEPT !.t = Append(@, t),
                                  !.x = Append(@, Downrange(t)),
                                  !.y = Append(@, y),
                                  !.z = Append(@, Drift(sim.wind, t)),
                                  !.i_end = IF hit THEN sim.i ELSE @,
                                  !.lasty = IF hit THEN @ ELSE y,
                                  !.i = IF hit \/ sim.i = sim.nmax THEN @ ELSE @ + 1,
                                  !.status = IF hit \/ sim.i = sim.nmax
                                             THEN "loop_done" ELSE "running"]
    /\ UNCHANGED <<weapon, tm, loadStatus, v0Call, pc, callVars, parked, fn, ui, web>>

\* ballistics.py:51 and solver.py:13: the slices t[:i_end+1] ... z[:i_end+1]
\* and tof = tr.t[-1].
SimReturn ==
    /\ sim.status = "loop_done"
    /\ sim' = [sim EXCEPT !.t = SubSeq(@, 1, sim.i_end + 1),
                          !.x = SubSeq(@, 1, sim.i_end + 1),
                          !.y = SubSeq(@, 1, sim.i_end + 1),
                          !.z = SubSeq(@, 1, sim.i_end + 1),
                          !.tof = sim.t[sim.i_end + 1],
                          !.status = "returned"]
    /\ UNCHANGED <<weapon, tm, loadStatus, v0Call, pc, callVars, parked, fn, ui, web>>

SimInit ==
    /\ weapon = NewWeapon(Catalog(MaxCharges))
    /\ tm = NewTableManager
    /\ loadStatus = "none"
    /\ v0Call = None
    /\ pc = "idle"
    /\ req = NoRequest
    /\ tables = FALSE
    /\ fs = NoFrame
    /\ fastStatus = "not_called"
    /\ fastResult = None
    /\ bf = NoBrute
    /\ outcome = "none"
    /\ result = None
    /\ probe = NoProbe
    /\ parked = IdleFrame
    /\ fn = NoCall
    /\ ui = NoUi
    /\ web = NoWeb
    /\ sim \in SimInputs

SimNext ==
    \/ SimStep
    \/ SimReturn

SimSpec == SimInit /\ [][SimNext]_vars

----------------------------------------------------------------------------
(* Properties.                                                             *)

\* The brute-force scan produced what suggest_best ended with: fast_solve was
\* not called, raised, or returned None.
BruteEnded ==
    /\ pc = "done"
    /\ (fastStatus = "not_called" \/ fastStatus = "raised" \/ IsNone(fastResult))

\* fast_solve has ended (returned or raised).
FastEnded == fastStatus = "returned" \/ fastStatus = "raised"

\* The 25-mil grid of a band: emin, emin+25, ... up to emax.
Grid(band) ==
    {band.emin + n * Mil(elev_step) : n \in 0..((band.emax - band.emin) \div Mil(elev_step))}

\* The miss of the shot of catalog charge c at elevation em for the request.
MissAt(c, em) == Abs(RangeOf(weapon.base_speed * weapon.charges[c], em) - req.target_x_m)

\* C1: in the brute-force scan, when the scan of a (charge, band) pair ends
\* with a best-so-far miss <= tolerance_m, the next step returns that best,
\* no further integrator call is made, and nothing follows a finished call
\* but the caller taking the result.
C1_EarlyExit ==
    [][ /\ (pc = "brute_check" /\ ~IsNone(bf.best)
                /\ Val(bf.best).miss_total_m <= req.tolerance_m)
            => (/\ pc' = "done"
                /\ outcome' = "returned"
                /\ result' = bf.best
                /\ probe'.simBrute = probe.simBrute)
        /\ pc = "done" => pc' = "idle" ]_vars

\* C1 witness: a brute-force call that returned within tolerance before the
\* last band of the last charge was scanned.
C1_Witness ==
    /\ BruteEnded /\ outcome = "returned" /\ ~IsNone(result)
    /\ Val(result).miss_total_m <= req.tolerance_m
    /\ bf.ci < Len(SortedCharges(weapon))
    /\ bf.bi < Len(bf.ranges)
    /\ probe.simBrute > 0

\* C2: when the brute-force scan returns a result within tolerance with
\* charge c, no grid candidate of a smaller catalog charge, in any band of
\* the mode, is within tolerance.
C2_LowerChargePreferred ==
    (/\ BruteEnded /\ outcome = "returned" /\ ~IsNone(result)
     /\ Val(result).miss_total_m <= req.tolerance_m)
    => \A c \in DOMAIN weapon.charges :
          c < Val(result).charge =>
             \A i \in DOMAIN Bands(req) : \A em \in Grid(Bands(req)[i]) :
                 MissAt(c, em) > req.tolerance_m

\* C2 witness: a brute-force result within tolerance whose charge is not the
\* smallest of the catalog.
C2_Witness ==
    /\ BruteEnded /\ outcome = "returned" /\ ~IsNone(result)
    /\ Val(result).miss_total_m <= req.tolerance_m
    /\ \E c \in DOMAIN weapon.charges : c < Val(result).charge

\* The admissible band of the request's mode, as the claim states it.
InModeBand(rq, em) ==
    IF rq.direct_fire THEN Mil(0) <= em /\ em <= Mil(DirectTop)
    ELSE IF rq.arc = "LOW" THEN Mil(0) <= em /\ em <= Mil(ArcSplit)
    ELSE IF rq.arc = "HIGH" THEN Mil(ArcSplit) <= em /\ em <= Mil(MAX_ELEVATION_MIL)
    ELSE Mil(0) <= em /\ em <= Mil(MAX_ELEVATION_MIL)

\* C3: the elevation of every ShotResult suggest_best returns lies in the
\* admissible band of the request's mode.
C3_ElevationInBand ==
    (pc = "done" /\ outcome = "returned" /\ ~IsNone(result))
    => InModeBand(req, Val(result).elev_mil)

FastStoppedOnCharge ==
    /\ fastStatus = "raised"
    /\ fs.si \in DOMAIN fs.sets
    /\ ~IsNone(fs.sets[fs.si])
    /\ fs.ci \in DOMAIN Val(fs.sets[fs.si]).charges
    /\ LET ts == Val(fs.sets[fs.si])
           cid == ts.charges[fs.ci]
       IN cid \notin DOMAIN weapon.charges \/ GuessRaises(ts, cid, req.target_x_m)

C5_NullIffNothingEvaluated ==
    BruteEnded
    => (/\ outcome = "returned"
        /\ IsNone(result) <=>
              (\/ DOMAIN weapon.charges = {}
               \/ \A i \in DOMAIN Bands(req) : Bands(req)[i].emin > Bands(req)[i].emax))

\* A consulted table set lists a charge that is not a catalog key or for
\* which it holds no range array.
Misconfigured(m, w, rq) ==
    \E i \in DOMAIN SelectSets(m, rq) :
        LET ts == Val(SelectSets(m, rq)[i])
        IN \E j \in DOMAIN ts.charges :
              ts.charges[j] \notin DOMAIN w.charges \/ ts.charges[j] \notin DOMAIN ts.npz

\* C6: with a fully loaded TableManager whose consulted table set lists an
\* unknown charge id (or lacks its range array), suggest_best ends with an
\* error and returns no ShotResult.
C6_ConfigErrorFailsFast ==
    (/\ pc = "done" /\ tables
     /\ ~IsNone(tm.direct) /\ ~IsNone(tm.low) /\ ~IsNone(tm.high)
     /\ Misconfigured(tm, weapon, req))
    => (outcome = "raised" /\ IsNone(result))

\* C7: v0_for_charge(id) returns base_speed times the stored multiplier for
\* a key of the catalog, fails for any other id, and no step changes the
\* weapon.
C7_ChargeLookup ==
    /\ [](~IsNone(v0Call) =>
            IF Val(v0Call).id \in DOMAIN weapon.charges
            THEN /\ ~Val(v0Call).raised
                 /\ Val(v0Call).value = weapon.base_speed * weapon.charges[Val(v0Call).id]
            ELSE Val(v0Call).raised)
    /\ [][weapon' = weapon]_vars

\* C7 witness: a lookup of a catalog key that returned a muzzle velocity.
C7_Witness ==
    /\ ~IsNone(v0Call)
    /\ Val(v0Call).id \in DOMAIN weapon.charges
    /\ ~Val(v0Call).raised
    /\ Val(v0Call).value > weapon.base_speed

\* C8: with a fully loaded TableManager passed, suggest_best's result is the
\* one fast_solve returned and the brute-force scan does not run; without
\* one, the brute-force scan runs.
C8_BruteIffNoTables ==
    pc = "done"
    => IF tables /\ ~IsNone(tm.direct) /\ ~IsNone(tm.low) /\ ~IsNone(tm.high)
       THEN /\ fastStatus = "returned"
            /\ outcome = "returned"
            /\ result = fastResult
            /\ bf = NoBrute
            /\ probe.simBrute = 0
       ELSE bf # NoBrute

\* C9: when a table set is absent, fast_solve returns null at once: no
\* integrator call, no weapon lookup, no table lookup, no table set chosen.
C9_NotLoadedReturnsNull ==
    (/\ FastEnded
     /\ (IsNone(tm.direct) \/ IsNone(tm.low) \/ IsNone(tm.high)))
    => (/\ fastStatus = "returned"
        /\ IsNone(fastResult)
        /\ probe.simFast = 0 /\ probe.v0Fast = 0 /\ probe.guessFast = 0
        /\ fs = NoFrame)

\* C9 witness: fast_solve was called while only some of the table sets were
\* present, and has returned.
C9_Witness ==
    /\ FastEnded
    /\ ~IsNone(tm.direct)
    /\ IsNone(tm.low)
    /\ pc = "brute_eval"

\* A well-formed table file, as the claim defines it.
WellFormed(f) ==
    /\ f.exists
    /\ {"elev_mil", "charges_id"} \subseteq f.keys
    /\ \A j \in DOMAIN f.charges_id : f.charges_id[j] \in DOMAIN f.ranges

\* C10: load_folder succeeds only when its three files are well-formed, and
\* fails when one is missing or malformed.
C10_LoadFailsOnMalformed ==
    /\ loadStatus = "ok" =>
          \A i \in DOMAIN Kinds : WellFormed(Disk(tm.folder, Kinds[i]))
    /\ loadStatus = "error" =>
          \E i \in DOMAIN Kinds : ~WellFormed(Disk(tm.folder, Kinds[i]))

\* The number of 25-mil steps across the widest band of the request's mode.
WidestSteps(rq) ==
    LET n(i) == (Bands(rq)[i].emax - Bands(rq)[i].emin) \div (25 * ElevScale)
    IN CHOOSE w \in {n(i) : i \in DOMAIN Bands(rq)} :
          \A i \in DOMAIN Bands(rq) : n(i) <= w

\* C11 (as claimed): the integrator calls of one brute-force scan never
\* exceed charges x bands x (band_width / 25).
C11_Original ==
    probe.simBrute <=
        Cardinality(DOMAIN weapon.charges) * Len(Bands(req)) * WidestSteps(req)

\* C11 (amended): the integrator calls of one brute-force scan never exceed
\* charges x bands x (band_width / 25 + 1): a band of width w holds
\* w / 25 + 1 grid elevations, its upper bound included.
C11_CostBound ==
    probe.simBrute <=
        Cardinality(DOMAIN weapon.charges) * Len(Bands(req)) * (WidestSteps(req) + 1)

\* C11 witness: a finished brute-force scan that made exactly
\* charges x bands x (band_width / 25 + 1) integrator calls.
C11_Witness ==
    /\ BruteEnded /\ outcome = "returned"
    /\ DOMAIN weapon.charges # {}
    /\ probe.simBrute =
          Cardinality(DOMAIN weapon.charges) * Len(Bands(req)) * (WidestSteps(req) + 1)

\* The largest number of charges one of the consulted table sets lists.
MaxListed(sets) ==
    IF sets = <<>> THEN 0
    ELSE CHOOSE n \in {Len(Val(sets[i]).charges) : i \in DOMAIN sets} :
            \A i \in DOMAIN sets : Len(Val(sets[i]).charges) <= n

\* C12: a fast_solve call makes at most charges x table_sets x 44 integrator
\* calls, with charges the number of charges a consulted table set lists and
\* also with charges the catalog size, and every call of fast_solve ends.
C12_FastCost ==
    /\ [](/\ probe.simFast <= MaxListed(fs.sets) * Len(fs.sets) * 44
          /\ probe.simFast <= Cardinality(DOMAIN weapon.charges) * Len(fs.sets) * 44)
    /\ (fastStatus = "running") ~> (fastStatus = "returned" \/ fastStatus = "raised")

\* C12 witness: fast_solve returned after exactly charges x table_sets x 44
\* integrator calls over two table sets.
C12_Witness ==
    /\ fastStatus = "returned"
    /\ Len(fs.sets) = 2
    /\ probe.simFast = MaxListed(fs.sets) * Len(fs.sets) * 44
    /\ probe.simFast = Cardinality(DOMAIN weapon.charges) * Len(fs.sets) * 44
    /\ probe.simFast > 0

----------------------------------------------------------------------------
(* What one invocation returns when it runs alone, computed in one piece   *)
(* from the request, the weapon and the table manager.                     *)

\* The candidate of charge cid at elevation em.
SoloShot(rq, v0, cid, em) ==
    [charge |-> cid, elev_mil |-> em, v0 |-> v0,
     miss_total_m |-> Abs(RangeOf(v0, em) - rq.target_x_m)]
SoloKeep(r, best) ==
    IF best = <<>> \/ r.miss_total_m < best[1].miss_total_m THEN <<r>> ELSE best

\* The best after the grid of one band, from elevation em on.
RECURSIVE SoloBand(_, _, _, _, _, _)
SoloBand(rq, v0, cid, band, em, best) ==
    IF em > band.emax THEN best
    ELSE SoloBand(rq, v0, cid, band, em + 25 * ElevScale,
                  SoloKeep(SoloShot(rq, v0, cid, em), best))

\* The brute-force scan from the ci-th charge and the bi-th band on.
RECURSIVE SoloBrute(_, _, _, _, _)
SoloBrute(rq, w, ci, bi, best) ==
    LET ids == SortedSeq(DOMAIN w.charges)
    IN IF ci > Len(ids) THEN best
       ELSE LET cid == ids[ci]
                b2 == SoloBand(rq, w.base_speed * w.charges[cid], cid, Bands(rq)[bi],
                               Bands(rq)[bi].emin, best)
            IN IF b2 # <<>> /\ b2[1].miss_total_m <= rq.tolerance_m THEN b2
               ELSE IF bi < Len(Bands(rq)) THEN SoloBrute(rq, w, ci, bi + 1, b2)
               ELSE SoloBrute(rq, w, ci + 1, 1, b2)

\* The refinement rounds of one charge from round rnd on: whether the call
\* returned early, and the best.
RECURSIVE SoloRounds(_, _, _, _, _, _, _)
SoloRounds(rq, v0, cid, center, window, rnd, best) ==
    LET start == IF center - window < 0 THEN 0 ELSE center - window
        end == IF center + window > MAX_ELEVATION_MIL * ElevScale
               THEN MAX_ELEVATION_MIL * ElevScale ELSE center + window
        em(k) == IF k = 11 THEN end ELSE start + ((k - 1) * (end - start)) \div 10
        miss(k) == Abs(RangeOf(v0, em(k)) - rq.target_x_m)
        kb == CHOOSE k \in 1..11 :
                 \A j \in 1..11 : miss(k) <= miss(j) /\ (j < k => miss(j) > miss(k))
        b2 == SoloKeep(SoloShot(rq, v0, cid, em(kb)), best)
        shrunk == IF (window * 45) \div 100 < 6 * ElevScale
                  THEN 6 * ElevScale ELSE (window * 45) \div 100
    IN IF b2[1].miss_total_m <= rq.tolerance_m THEN [early |-> TRUE, best |-> b2]
       ELSE IF rnd = 4 THEN [early |-> FALSE, best |-> b2]
       ELSE SoloRounds(rq, v0, cid, em(kb), shrunk, rnd + 1, b2)

\* fast_solve over loaded table sets from the si-th set and its ci-th charge.
RECURSIVE SoloFast(_, _, _, _, _, _)
SoloFast(rq, w, sets, si, ci, best) ==
    IF si > Len(sets) THEN [status |-> "returned", result |-> best]
    ELSE LET ts == sets[si][1]
         IN IF ci > Len(ts.charges) THEN SoloFast(rq, w, sets, si + 1, 1, best)
            ELSE LET cid == ts.charges[ci]
                 IN IF cid \notin DOMAIN w.charges \/ cid \notin DOMAIN ts.npz
                    THEN [status |-> "raised", result |-> <<>>]
                    ELSE LET rr == SoloRounds(rq, w.base_speed * w.charges[cid], cid,
                                              ts.elev[ArgMin(ts.npz[cid], rq.target_x_m)] * ElevScale,
                                              50 * ElevScale, 1, best)
                         IN IF rr.early THEN [status |-> "returned", result |-> rr.best]
                            ELSE SoloFast(rq, w, sets, si, ci + 1, rr.best)

\* suggest_best(rq, w, m if tb else None) for a non-empty catalog and a fully
\* loaded table manager: a wind tuple the integrator cannot unpack makes the
\* first evaluation of the brute-force scan raise.
SoloSuggest(rq, w, m, tb) ==
    LET brute == [outcome |-> "returned", result |-> SoloBrute(rq, w, 1, 1, <<>>)]
        fast == SoloFast(rq, w, SelectSets(m, rq), 1, 1, <<>>)
    IN IF Len(rq.wind_ff) # 3 THEN [outcome |-> "raised", result |-> <<>>]
       ELSE IF tb /\ fast.status = "returned" /\ fast.result # <<>>
       THEN [outcome |-> "returned", result |-> fast.result]
       ELSE brute

\* C13: two invocations sharing the Weapon and the loaded TableManager,
\* interleaved at any step: each ends exactly as it ends when run alone, no
\* step changes the weapon or the table manager, the request of a call in
\* progress stays what it was, and the locals of the suspended invocation
\* are untouched until it runs again.
C13_SharedReadOnly ==
    /\ [](pc = "done" =>
             LET solo == SoloSuggest(req, weapon, tm, tables)
             IN outcome = solo.outcome /\ result = solo.result)
    /\ [][ /\ weapon' = weapon
           /\ tm' = tm
           /\ (pc # "idle" /\ pc # "done") => (req' = req \/ parked'.req = req)
           /\ parked' # parked =>
                 /\ parked'.pc = pc /\ parked'.req = req /\ parked'.result = result
                 /\ parked'.outcome = outcome /\ parked'.fs = fs /\ parked'.bf = bf
                 /\ pc' = parked.pc /\ req' = parked.req /\ result' = parked.result
                 /\ outcome' = parked.outcome /\ fs' = parked.fs /\ bf' = parked.bf ]_vars

\* C13 witness: an invocation has returned a solution while the other one,
\* with another request, is suspended in the middle of a refinement round.
C13_Witness ==
    /\ pc = "done" /\ outcome = "returned" /\ ~IsNone(result)
    /\ probe.simBrute > 1
    /\ parked.pc = "fast_eval" /\ parked.probe.simFast > 1
    /\ parked.req # req

----------------------------------------------------------------------------
\* C14 (as claimed): the time of every sample of the trajectory simulate_rk4
\* returns, and so the time of flight, is <= time_to_live.
C14_Original ==
    sim.status = "returned"
    => (/\ \A k \in DOMAIN sim.t : sim.t[k] <= sim.ttl
        /\ sim.tof <= sim.ttl)

\* C14 (amended): the k-th sample of the returned trajectory has the time
\* (k-1) * step_time, there are at most max(1, ceil(ttl / step_time)) steps,
\* and so every sample time and the time of flight are at most
\* ceil(ttl / step_time) * step_time, less than one step beyond time_to_live.
C14_StepBudgetTime ==
    sim.status = "returned"
    => LET steps == IF sim.ttl % sim.dt = 0 THEN sim.ttl \div sim.dt
                    ELSE sim.ttl \div sim.dt + 1
       IN /\ Len(sim.t) <= steps + 1
          /\ \A k \in DOMAIN sim.t :
                sim.t[k] = (k - 1) * sim.dt /\ sim.t[k] < sim.ttl + sim.dt
          /\ sim.tof = sim.t[Len(sim.t)]
          /\ sim.tof <= steps * sim.dt

\* C14 witness: a returned trajectory that used its whole step budget and
\* whose time of flight is beyond time_to_live.
C14_Witness ==
    /\ sim.status = "returned"
    /\ sim.tof > sim.ttl
    /\ Len(sim.t) > 2

----------------------------------------------------------------------------
\* The (charge, band) pairs whose grid a finished brute-force scan has
\* evaluated: every band of the charges before the last one reached, and
\* the bands of that charge up to the last one reached.
BruteScanned(c, i) == c < bf.cid \/ (c = bf.cid /\ i <= bf.bi)

\* C15: the result of the brute-force scan is an evaluated candidate whose
\* miss is the least among all evaluated candidates, and every candidate
\* evaluated before it (lower charge, or same charge and lower elevation) has
\* a strictly greater miss.
C15_GlobalMinFirst ==
    (BruteEnded /\ outcome = "returned" /\ ~IsNone(result))
    => LET r == Val(result)
       IN /\ r.charge \in DOMAIN weapon.charges
          /\ \E i \in DOMAIN Bands(req) :
                BruteScanned(r.charge, i) /\ r.elev_mil \in Grid(Bands(req)[i])
          /\ r.miss_total_m = MissAt(r.charge, r.elev_mil)
          /\ \A c \in DOMAIN weapon.charges : \A i \in DOMAIN Bands(req) :
                BruteScanned(c, i) =>
                   \A em \in Grid(Bands(req)[i]) :
                      /\ MissAt(c, em) >= r.miss_total_m
                      /\ (c < r.charge \/ (c = r.charge /\ em < r.elev_mil))
                            => MissAt(c, em) > r.miss_total_m

\* C15 witness: the scan returned a candidate although a candidate it
\* evaluated later has the same miss.
C15_Witness ==
    /\ BruteEnded /\ outcome = "returned" /\ ~IsNone(result)
    /\ \E c \in DOMAIN weapon.charges : \E i \in DOMAIN Bands(req) :
          /\ BruteScanned(c, i)
          /\ \E em \in Grid(Bands(req)[i]) :
                /\ (c > Val(result).charge
                       \/ (c = Val(result).charge /\ em > Val(result).elev_mil))
                /\ MissAt(c, em) = Val(result).miss_total_m

----------------------------------------------------------------------------
(* The order of evaluation the brute-force scan is to follow, as a list:   *)
(* charges ascending, for each the bands of the mode in their order, for   *)
(* each band the elevations lower, lower + 25, ... up to the upper bound.  *)

\* The bands of a mode as <<lower, upper>> pairs in whole mil.
ModeBands(rq) ==
    IF rq.direct_fire THEN << <<0, 250>> >>
    ELSE IF rq.arc = "LOW" THEN << <<0, 650>> >>
    ELSE IF rq.arc = "HIGH" THEN << <<650, MAX_ELEVATION_MIL>> >>
    ELSE << <<0, 650>>, <<650, MAX_ELEVATION_MIL>> >>

\* The number of grid elevations of band i, and of the bands before band i.
BandCount(rq, i) == (ModeBands(rq)[i][2] - ModeBands(rq)[i][1]) \div 25 + 1
RECURSIVE CountBefore(_, _)
CountBefore(rq, i) == IF i <= 1 THEN 0 ELSE CountBefore(rq, i - 1) + BandCount(rq, i - 1)

\* The n-th smallest element of a non-empty set of charge ids.
NthCharge(S, n) == CHOOSE c \in S : Cardinality({d \in S : d < c}) = n - 1

\* The n-th evaluation (n >= 1) of the listed order: <<charge, band, elevation>>.
ScanOrder(rq, w, n) ==
    LET per == CountBefore(rq, Len(ModeBands(rq)) + 1)
        ci == (n - 1) \div per + 1
        rem == (n - 1) % per
        bi == CHOOSE i \in DOMAIN ModeBands(rq) :
                 CountBefore(rq, i) <= rem /\ rem < CountBefore(rq, i) + BandCount(rq, i)
    IN <<NthCharge(DOMAIN w.charges, ci), bi,
         (ModeBands(rq)[bi][1] + 25 * (rem - CountBefore(rq, bi))) * ElevScale>>

\* C16: the n-th integrator call of the brute-force scan evaluates the n-th
\* entry of the listed order, and the tolerance check after a band, and the
\* end of the scan, come when exactly the grids of the bands scanned so far,
\* upper bounds included, have been evaluated.
C16_ScanOrder ==
    /\ pc = "brute_eval" =>
          <<bf.cid, bf.bi, bf.em>> = ScanOrder(req, weapon, probe.simBrute + 1)
    /\ pc = "brute_check" =>
          probe.simBrute =
             (bf.ci - 1) * CountBefore(req, Len(ModeBands(req)) + 1)
                + CountBefore(req, bf.bi + 1)
    /\ (/\ BruteEnded /\ outcome = "returned"
        /\ (IsNone(result) \/ Val(result).miss_total_m > req.tolerance_m)) =>
          probe.simBrute =
             Cardinality(DOMAIN weapon.charges) * CountBefore(req, Len(ModeBands(req)) + 1)

\* C16 witness: the scan of mode ANY is about to evaluate the upper bound of
\* its second band for the last charge.
C16_Witness ==
    /\ pc = "brute_eval"
    /\ Len(bf.ranges) = 2 /\ bf.bi = 2
    /\ bf.em = MAX_ELEVATION_MIL * ElevScale
    /\ bf.ci = Len(SortedCharges(weapon)) /\ bf.ci > 1

----------------------------------------------------------------------------
\* fast_solve ended at its last line: every consulted table set was gone
\* through and no round met the tolerance.
FastRanOut == fastStatus = "returned" /\ fs.sets # <<>> /\ fs.si > Len(fs.sets)

\* C17: when fast_solve ends at its last line, it returns null exactly when
\* no consulted table set lists a charge; otherwise its result is one of the
\* evaluated candidates, its miss is the least of all the candidates
\* evaluated in the call and exceeds the tolerance.
C17_FastBestOverall ==
    FastRanOut
    => /\ IsNone(fastResult) <=>
             \A i \in DOMAIN fs.sets : Len(Val(fs.sets[i]).charges) = 0
       /\ ~IsNone(fastResult) =>
             /\ ~IsNone(probe.minFast)
             /\ Val(fastResult).miss_total_m = Val(probe.minFast)
             /\ Val(fastResult).miss_total_m =
                   MissAt(Val(fastResult).charge, Val(fastResult).elev_mil)
             /\ Val(fastResult).miss_total_m > req.tolerance_m

\* C17 witness: fast_solve went through two table sets of two charges each,
\* four rounds per charge, and returned a result outside the tolerance.
C17_Witness ==
    /\ FastRanOut /\ ~IsNone(fastResult)
    /\ Len(fs.sets) = 2
    /\ probe.simFast = 2 * 2 * 44
    /\ Val(fastResult).charge = 2

----------------------------------------------------------------------------
\* C18: in fast_solve, when a round has ended (its 11 samples evaluated) and
\* the better of the round's best and the best so far is within tolerance,
\* the next step is the return of that result: no integrator call, no
\* lookup for a further charge, no move to a further round, charge or table
\* set; and suggest_best then returns it without a brute-force scan.
C18_FastEarlyReturn ==
    [][ /\ (/\ pc = "fast_round"
            /\ \/ Val(fs.local).miss_total_m <= req.tolerance_m
               \/ (~IsNone(fs.best) /\ Val(fs.best).miss_total_m <= req.tolerance_m))
           => (/\ pc' = "fast_exit"
               /\ fastStatus' = "returned"
               /\ fastResult' =
                     IF IsNone(fs.best)
                           \/ Val(fs.local).miss_total_m < Val(fs.best).miss_total_m
                     THEN fs.local ELSE fs.best
               /\ probe' = probe
               /\ fs'.rnd = fs.rnd /\ fs'.ci = fs.ci /\ fs'.si = fs.si)
        /\ (/\ pc = "fast_exit" /\ fastStatus = "returned" /\ ~IsNone(fastResult))
           => (/\ pc' = "done" /\ outcome' = "returned" /\ result' = fastResult
               /\ probe' = probe /\ bf' = NoBrute) ]_vars

\* C18 witness: fast_solve returned within tolerance after the first round of
\* the first charge of the first of two table sets.
C18_Witness ==
    /\ pc = "done" /\ fastStatus = "returned" /\ ~IsNone(fastResult)
    /\ Val(fastResult).miss_total_m <= req.tolerance_m
    /\ Len(fs.sets) = 2 /\ fs.si = 1 /\ fs.ci = 1 /\ fs.rnd = 1
    /\ Len(Val(fs.sets[1]).charges) = 2
    /\ probe.simFast = 11

----------------------------------------------------------------------------
\* C19: every elevation fast_solve passes to the integrator lies in
\* [0, MAX_ELEVATION].
C19_SamplesClamped ==
    pc = "fast_eval"
    => LET em == Linspace(WinStart(fs.center, fs.window),
                          WinEnd(fs.center, fs.window), fs.k)
       IN 0 <= em /\ em <= MAX_ELEVATION_MIL * ElevScale

----------------------------------------------------------------------------
\* The windows of the four rounds, 50, 22.5, 10.125 and 6 mil.
RoundWindows ==
    <<50 * ElevScale, (225 * ElevScale) \div 10, (10125 * ElevScale) \div 1000,
      6 * ElevScale>>

\* C20: the rounds of a charge start with a window of 50 mil; from one round
\* to the next the window becomes max(6, 0.45 * window), which is smaller as
\* long as the window is above 6 mil; the window is never below 6 mil, and
\* the four rounds use 50, 22.5, 10.125 and 6 mil.
C20_WindowShrink ==
    /\ []((pc = "fast_eval" \/ pc = "fast_round") =>
             /\ fs.rnd \in 1..4
             /\ fs.window = RoundWindows[fs.rnd]
             /\ fs.window >= 6 * ElevScale)
    /\ [][ /\ (pc = "fast_charge" /\ pc' = "fast_eval") => fs'.window = 50 * ElevScale
           /\ (pc = "fast_round" /\ pc' = "fast_eval") =>
                 /\ fs'.rnd = fs.rnd + 1
                 /\ fs'.window = IF (45 * fs.window) \div 100 > 6 * ElevScale
                                 THEN (45 * fs.window) \div 100 ELSE 6 * ElevScale
                 /\ fs'.window < fs.window
                 /\ fs'.window >= 6 * ElevScale ]_vars

\* C20 witness: the fourth round of the second charge of a table set runs
\* with the window at its floor of 6 mil.
C20_Witness ==
    /\ pc = "fast_eval"
    /\ fs.rnd = 4 /\ fs.ci = 2
    /\ fs.window = 6 * ElevScale
    /\ probe.simFast > 44

----------------------------------------------------------------------------
(* Pure routines on bounded inputs: TableSet.guess_elev_for_range          *)
(* (table_cache.py:22-25), closest_approach (ballistics.py:53-57) and      *)
(* impact_range (ballistics.py:59-73).  Each behaviour of FnSpec is one    *)
(* call: Init draws the arguments, the action applies the routine.         *)

MaxSamples == 4

\* First index of the minimum of an array (np.argmin).
argmin_last(a) ==
    CHOOSE i \in DOMAIN a : \A j \in DOMAIN a : a[i] <= a[j] /\ (j > i => a[j] > a[i])
argmin(a) ==
    CHOOSE i \in DOMAIN a : \A j \in DOMAIN a : a[i] <= a[j] /\ (j < i => a[j] > a[i])

\* Squared distance of sample i to the target (ballistics.py:54-55).
Dist2(tr, i, tx, ty, tz) ==
    (tr.x[i] - tx) * (tr.x[i] - tx) + (tr.y[i] - ty) * (tr.y[i] - ty)
        + (tr.z[i] - tz) * (tr.z[i] - tz)

\* closest_approach: np.argmin raises ValueError on an empty trajectory.  The
\* distance is returned as its square d2[idx]; the code returns its root.
ClosestRaises(tr) == Len(tr.x) = 0
closest_approach(tr, tx, ty, tz) ==
    LET d2 == [i \in DOMAIN tr.x |-> Dist2(tr, i, tx, ty, tz)]
        idx == argmin(d2)
    IN  [x |-> tr.x[idx], y |-> tr.y[idx], z |-> tr.z[idx], d2 |-> d2[idx]]

\* The index at which impact_range's loop breaks: the first sample at or
\* below the ground whose predecessor is above it; 0 when the loop ends
\* without a break (idx is None).
Crossings(y) == {i \in 2..Len(y) : y[i] <= 0 /\ y[i - 1] > 0}
FirstCrossing_last(y) ==
    IF Crossings(y) = {} THEN 0
    ELSE CHOOSE i \in Crossings(y) : \A j \in Crossings(y) : i >= j
FirstCrossing(y) ==
    IF Crossings(y) = {} THEN 0
    ELSE CHOOSE i \in Crossings(y) : \A j \in Crossings(y) : i <= j

\* impact_range.  The two returned numbers are kept as exact fractions
\* range_num/den and time_num/den: a = (0 - y0)/(y1 - y0) = y0/(y0 - y1).
impact_range(tr) ==
    LET n == Len(tr.y)
        idx == FirstCrossing(tr.y)
    IN  IF n < 2
        THEN [range_num |-> IF Len(tr.x) > 0 THEN tr.x[Len(tr.x)] ELSE 0,
              time_num |-> IF Len(tr.t) > 0 THEN tr.t[Len(tr.t)] ELSE 0, den |-> 1]
        ELSE IF idx = 0
        THEN [range_num |-> tr.x[n], time_num |-> tr.t[n], den |-> 1]
        ELSE LET y0 == tr.y[idx - 1]
                 y1 == tr.y[idx]
                 x0 == tr.x[idx - 1]
                 x1 == tr.x[idx]
                 t0 == tr.t[idx - 1]
                 t1 == tr.t[idx]
             IN  IF y1 - y0 # 0
                 THEN [range_num |-> x0 * (y0 - y1) + y0 * (x1 - x0),
                       time_num |-> t0 * (y0 - y1) + y0 * (t1 - t0), den |-> y0 - y1]
                 ELSE [range_num |-> x0, time_num |-> t0, den |-> 1]

\* The arguments: table sets with one stored range array whose length may
\* differ from the elevation array's, and trajectories of up to MaxSamples
\* samples taken every 2 m downrange and every 3 time units.
Altitudes == {-1, 0, 1, 2}
TableRanges == {100, 200, 300}
GuessTargets == {150, 200, 320}
ElevGrid == <<1400, 1200, 1000, 800, 600>>

GuessInputs ==
    UNION {{[op |-> "guess", status |-> "ready",
             ts |-> [path |-> <<"tables", "low">>, elev |-> SubSeq(ElevGrid, 1, m),
                     charges |-> <<1>>, npz |-> (1 :> r)],
             charge |-> c, target |-> g, out |-> 0] :
              r \in [1..n -> TableRanges], c \in {1, 2}, g \in GuessTargets} :
           n \in 0..(MaxSamples - 1), m \in 1..(MaxSamples - 1)}

Trajectories ==
    UNION {{[t |-> [i \in 1..n |-> 3 * (i - 1)], x |-> [i \in 1..n |-> 2 * (i - 1)],
             y |-> ys, z |-> [i \in 1..n |-> 0]] : ys \in [1..n -> Altitudes]} :
           n \in 0..MaxSamples}

ClosestInputs ==
    {[op |-> "closest_approach", status |-> "ready", tr |-> tr,
      tx |-> tx, ty |-> ty, tz |-> 0, out |-> 0] :
        tr \in Trajectories, tx \in {1, 2}, ty \in {0, 1}}

ImpactInputs ==
    {[op |-> "impact_range", status |-> "ready", tr |-> tr, out |-> 0] :
        tr \in Trajectories}

GuessCall ==
    /\ fn.op = "guess" /\ fn.status = "ready"
    /\ fn' = IF GuessRaises(fn.ts, fn.charge, fn.target)
             THEN [fn EXCEPT !.status = "raised"]
             ELSE [fn EXCEPT !.status = "returned",
                             !.out = guess_elev_for_range(fn.ts, fn.charge, fn.target)]
    /\ UNCHANGED <<weapon, tm, loadStatus, v0Call, pc, callVars, parked, sim, ui, web>>

ClosestCall ==
    /\ fn.op = "closest_approach" /\ fn.status = "ready"
    /\ fn' = IF ClosestRaises(fn.tr)
             THEN [fn EXCEPT !.status = "raised"]
             ELSE [fn EXCEPT !.status = "returned",
                             !.out = closest_approach(fn.tr, fn.tx, fn.ty, fn.tz)]
    /\ UNCHANGED <<weapon, tm, loadStatus, v0Call, pc, callVars, parked, sim, ui, web>>

ImpactCall ==
    /\ fn.op = "impact_range" /\ fn.status = "ready"
    /\ fn' = [fn EXCEPT !.status = "returned", !.out = impact_range(fn.tr)]
    /\ UNCHANGED <<weapon, tm, loadStatus, v0Call, pc, callVars, parked, sim, ui, web>>

FnInit ==
    /\ weapon = NewWeapon(Catalog(MaxCharges))
    /\ tm = NewTableManager
    /\ loadStatus = "none"
    /\ v0Call = None
    /\ pc = "idle"
    /\ req = NoRequest
    /\ tables = FALSE
    /\ fs = NoFrame
    /\ fastStatus = "not_called"
    /\ fastResult = None
    /\ bf = NoBrute
    /\ outcome = "none"
    /\ result = None
    /\ probe = NoProbe
    /\ parked = IdleFrame
    /\ sim = NoSim
    /\ ui = NoUi
    /\ web = NoWeb
    /\ fn \in GuessInputs \cup ClosestInputs \cup ImpactInputs

FnNext ==
    \/ GuessCall
    \/ ClosestCall
    \/ ImpactCall

FnSpec == FnInit /\ [][FnNext]_vars

----------------------------------------------------------------------------
(* Claims on the pure routines (FnSpec).                                   *)

\* C21: guess_elev_for_range(charge, target_range) returns elevation[i] for
\* the first index i that minimises |range[i] - target_range| over the charge's
\* range array: the value is an element of the set's elevation array, no
\* sample before i is as near, and nothing is interpolated.
C21_FirstNearestSample ==
    (fn.op = "guess" /\ fn.status = "returned") =>
        LET r == fn.ts.npz[fn.charge]
            e == fn.ts.elev
        IN  \E i \in DOMAIN r :
                /\ i \in DOMAIN e
                /\ fn.out = e[i] * ElevScale
                /\ \A j \in DOMAIN r : Abs(r[i] - fn.target) <= Abs(r[j] - fn.target)
                /\ \A j \in 1..(i - 1) : Abs(r[j] - fn.target) > Abs(r[i] - fn.target)

\* A call returned although a later sample is exactly as near as the chosen
\* one and the target lies strictly between two stored ranges.
C21_Witness ==
    /\ fn.op = "guess" /\ fn.status = "returned"
    /\ LET r == fn.ts.npz[fn.charge]
       IN  \E i, j \in DOMAIN r :
               /\ i < j
               /\ fn.out = fn.ts.elev[i] * ElevScale
               /\ Abs(r[i] - fn.target) = Abs(r[j] - fn.target)
               /\ r[i] # fn.target
               /\ \A k \in DOMAIN r : Abs(r[i] - fn.target) <= Abs(r[k] - fn.target)

----------------------------------------------------------------------------
(* Claims on the trajectory simulate_rk4 returns (SimSpec).                *)

\* C22: with stop_on_ground set, the last index of the returned trajectory
\* is the smallest step index i > 5 with altitude[i] < 0 and altitude[i] <
\* altitude[i-1]; if there is none within the step budget
\* max(1, ceil(time_to_live/dt)) the trajectory has budget + 1 samples, and
\* no sample at an index <= 5 ends it early.
C22_GroundStop ==
    (sim.status = "returned" /\ sim.stop_on_ground) =>
        LET last == Len(sim.y) - 1
            c == (sim.ttl + sim.dt - 1) \div sim.dt
            budget == IF c < 1 THEN 1 ELSE c
            Ends(i) == i > 5 /\ sim.y[i + 1] < 0 /\ sim.y[i + 1] < sim.y[i]
        IN  /\ last <= budget
            /\ \A i \in 1..(last - 1) : ~Ends(i)
            /\ Ends(last) \/ last = budget
            /\ last > 5 \/ last = budget

\* A trajectory ended before its budget although an earlier sample, at an
\* index <= 5, was already below the ground and falling.
C22_Witness ==
    /\ sim.status = "returned" /\ sim.stop_on_ground
    /\ Len(sim.y) - 1 < Max2(1, (sim.ttl + sim.dt - 1) \div sim.dt)
    /\ \E i \in 1..5 : i < Len(sim.y) /\ sim.y[i + 1] < 0 /\ sim.y[i + 1] < sim.y[i]

\* C23: every returned trajectory has time, downrange, altitude and drift
\* sequences of one length, at least 2, with sample 0 = (0, 0, 0, 0) and
\* strictly increasing times t[i] = i*dt.
C23_TrajectoryShape ==
    sim.status = "returned" =>
        /\ Len(sim.t) = Len(sim.x) /\ Len(sim.x) = Len(sim.y) /\ Len(sim.y) = Len(sim.z)
        /\ Len(sim.t) >= 2
        /\ sim.t[1] = 0 /\ sim.x[1] = 0 /\ sim.y[1] = 0 /\ sim.z[1] = 0
        /\ \A i \in 1..Len(sim.t) : sim.t[i] = (i - 1) * sim.dt
        /\ \A i \in 1..(Len(sim.t) - 1) : sim.t[i] < sim.t[i + 1]

\* A trajectory cut short by the ground rule was returned, with samples that
\* left the firing plane.
C23_Witness ==
    /\ sim.status = "returned"
    /\ Len(sim.t) - 1 < sim.nmax
    /\ sim.z[Len(sim.z)] # 0

\* C24: closest_approach returns the coordinates of a sample whose squared
\* distance to the target is minimal over all samples, with that distance
\* (kept squared here); among samples at the minimal distance it returns the one
\* with the smallest index.
C24_ClosestFirstMinimum ==
    (fn.op = "closest_approach" /\ fn.status = "returned") =>
        LET tr == fn.tr
            D(i) == (tr.x[i] - fn.tx) * (tr.x[i] - fn.tx)
                        + (tr.y[i] - fn.ty) * (tr.y[i] - fn.ty)
                        + (tr.z[i] - fn.tz) * (tr.z[i] - fn.tz)
        IN  \E i \in DOMAIN tr.x :
                /\ fn.out.x = tr.x[i] /\ fn.out.y = tr.y[i] /\ fn.out.z = tr.z[i]
                /\ fn.out.d2 = D(i)
                /\ \A j \in DOMAIN tr.x : D(i) <= D(j)
                /\ \A j \in 1..(i - 1) : D(j) > D(i)

\* Two samples were equally near the target, nearer than every other, and
\* the earlier of the two was returned.
C24_Witness ==
    /\ fn.op = "closest_approach" /\ fn.status = "returned"
    /\ LET tr == fn.tr
           D(i) == (tr.x[i] - fn.tx) * (tr.x[i] - fn.tx)
                       + (tr.y[i] - fn.ty) * (tr.y[i] - fn.ty)
                       + (tr.z[i] - fn.tz) * (tr.z[i] - fn.tz)
       IN  \E i, j \in DOMAIN tr.x :
               /\ i < j /\ D(i) = D(j)
               /\ \A k \in DOMAIN tr.x : D(i) <= D(k)
               /\ fn.out.x = tr.x[i] /\ fn.out.x # tr.x[j]

\* C25: impact_range uses the first index i with altitude[i-1] > 0 and
\* altitude[i] <= 0 and returns the range and the time interpolated at the
\* fraction a = (0 - y[i-1])/(y[i] - y[i-1]), both between the values of
\* samples i-1 and i; without such an index, as for a trajectory that never
\* rises above 0, it returns the range and the time of the final sample.
C25_ImpactInterpolated ==
    (fn.op = "impact_range" /\ fn.status = "returned" /\ Len(fn.tr.y) >= 1) =>
        LET tr == fn.tr
            n == Len(tr.y)
            o == fn.out
            Cross(i) == tr.y[i - 1] > 0 /\ tr.y[i] <= 0
        IN  /\ o.den > 0
            /\ (\A i \in 2..n : ~Cross(i)) =>
                   /\ o.range_num = tr.x[n] * o.den
                   /\ o.time_num = tr.t[n] * o.den
            /\ \A i \in 2..n :
                   (Cross(i) /\ \A j \in 2..(i - 1) : ~Cross(j)) =>
                       LET a_num == 0 - tr.y[i - 1]
                           a_den == tr.y[i] - tr.y[i - 1]
                       IN  \* o = v0 + (a_num/a_den) * (v1 - v0), cross-multiplied
                           /\ o.range_num * a_den
                                = o.den * (tr.x[i - 1] * a_den + a_num * (tr.x[i] - tr.x[i - 1]))
                           /\ o.time_num * a_den
                                = o.den * (tr.t[i - 1] * a_den + a_num * (tr.t[i] - tr.t[i - 1]))
                           /\ tr.x[i - 1] * o.den <= o.range_num
                           /\ o.range_num <= tr.x[i] * o.den
                           /\ tr.t[i - 1] * o.den <= o.time_num
                           /\ o.time_num <= tr.t[i] * o.den

\* The trajectory came down through the ground twice; the first descent was
\* used, and the impact lies strictly between two samples.
C25_Witness ==
    /\ fn.op = "impact_range" /\ fn.status = "returned"
    /\ LET tr == fn.tr
       IN  \E i, j \in 2..Len(tr.y) :
               /\ i < j
               /\ tr.y[i - 1] > 0 /\ tr.y[i] < 0
               /\ tr.y[j - 1] > 0 /\ tr.y[j] <= 0
               /\ tr.x[i - 1] * fn.out.den < fn.out.range_num
               /\ fn.out.range_num < tr.x[i] * fn.out.den

----------------------------------------------------------------------------
(* Claims on the results the solvers retain and return (Spec).             *)

\* The ShotResults a call holds: the round's and the overall best of
\* fast_solve, what it returned, the scan's best, and what suggest_best
\* returned.
Retained == {fs.local, fs.best, fastResult, bf.best, result} \ {None}

\* C26: every retained ShotResult carries the charge id whose muzzle
\* velocity produced it: the charge is a catalog charge, never the
\* placeholder 0, muzzle_velocity is the weapon's v0 for it, and elevation and
\* miss are still those of the evaluation that built the result.
C26_ChargeStamped ==
    \A o \in Retained :
        LET r == Val(o)
        IN  /\ r.charge # 0
            /\ r.charge \in DOMAIN weapon.charges
            /\ r.v0 = weapon.base_speed * weapon.charges[r.charge]
            /\ r.miss_total_m = Abs(RangeOf(r.v0, r.elev_mil) - req.target_x_m)

\* A call returned a result of the second charge, found by fast_solve
\* after it had tried and left the first.
C26_Witness ==
    /\ pc = "done" /\ outcome = "returned" /\ ~IsNone(result)
    /\ Val(result).charge = 2
    /\ Val(result).v0 = weapon.base_speed * weapon.charges[2]
    /\ fastStatus = "returned" /\ result = fastResult

----------------------------------------------------------------------------
\* C27: after any sequence of load_folder calls, successful or failing,
\* whenever loaded() is true the direct, low and high table sets were all
\* loaded from one directory, the one recorded in the manager's folder field.
C27_LoadedFromOneFolder ==
    (~IsNone(tm.direct) /\ ~IsNone(tm.low) /\ ~IsNone(tm.high)) =>
        /\ Val(tm.direct).path[1] = tm.folder
        /\ Val(tm.low).path[1] = tm.folder
        /\ Val(tm.high).path[1] = tm.folder

\* C28: a result within tolerance_m returned by the brute-force scan was
\* evaluated in the last (charge, band) pair scanned, and one returned by
\* fast_solve in the last refinement round run: its charge is the last charge
\* visited and its elevation was sampled in that band or round; an early
\* exit never returns a result of an earlier charge.
C28_ExitFromLastScan ==
    /\ (/\ pc = "done" /\ outcome = "returned" /\ ~IsNone(result)
        /\ (fastStatus = "not_called" \/ fastStatus = "raised" \/ IsNone(fastResult))
        /\ Val(result).miss_total_m <= req.tolerance_m)
       => (/\ bf.ci \in DOMAIN SortedCharges(weapon)
           /\ Val(result).charge = SortedCharges(weapon)[bf.ci]
           /\ bf.bi \in DOMAIN bf.ranges
           /\ Val(result).elev_mil \in Grid(bf.ranges[bf.bi]))
    /\ (/\ fastStatus = "returned" /\ ~IsNone(fastResult)
        /\ Val(fastResult).miss_total_m <= req.tolerance_m)
       => (/\ fastResult = fs.local
           /\ Val(fastResult).charge = Val(fs.sets[fs.si]).charges[fs.ci])

\* The scan returned within tolerance from the first band of the second
\* charge, after both bands of the first charge had been scanned and left.
C28_Witness ==
    /\ pc = "done" /\ outcome = "returned" /\ ~IsNone(result)
    /\ (fastStatus = "not_called" \/ fastStatus = "raised" \/ IsNone(fastResult))
    /\ Val(result).miss_total_m <= req.tolerance_m
    /\ bf.ci = 2 /\ bf.bi = 1 /\ Len(bf.ranges) = 2

----------------------------------------------------------------------------
(* MainWindow.compute_selected and the no-fire areas (ui.py:625-709,       *)
(* 1021-1034).  Points are <<x, y>> in whole metres; a zone is a record    *)
(* [x_m, y_m, radius_m].                                                   *)

\* _sheaf_offsets: a single aim point, and the parallel sheaf.
Sheaves == {<<0>>, <<-25, 0, 25>>}

\* right_from_bearing(bearing_rad_from_north(a, b)) = (cos b, -sin b) with
\* b = atan2(dx, dy), for the bearings used here: along an axis, and
\* atan2(0, 0) = 0 when the two points coincide.
RightOf(a, b) ==
    LET dx == b[1] - a[1]
        dy == b[2] - a[2]
    IN  IF dx = 0 /\ dy >= 0 THEN <<1, 0>>
        ELSE IF dx = 0 THEN <<-1, 0>>
        ELSE IF dx > 0 THEN <<0, -1>>
        ELSE <<0, 1>>

\* _targets_for_sheaf
targets_for_sheaf(gun_pt, base_target, offsets) ==
    [i \in DOMAIN offsets |->
        <<base_target[1] + RightOf(gun_pt, base_target)[1] * offsets[i],
          base_target[2] + RightOf(gun_pt, base_target)[2] * offsets[i]>>]

\* One pass of the loop of _line_intersects_nfa: a segment of no length is
\* skipped ("continue"); otherwise the nearest point of the segment to the
\* centre is compared with the radius.  t = dot/len2 is clamped to [0, 1];
\* the comparison hypot(p - c) <= r is made on squares, multiplied by len2.
ZoneHit(a, b, z) ==
    LET abx == b[1] - a[1]
        aby == b[2] - a[2]
        acx == z.x_m - a[1]
        acy == z.y_m - a[2]
        dot == acx * abx + acy * aby
        len2 == abx * abx + aby * aby
        r2 == z.radius_m * z.radius_m
    IN  IF abx = 0 /\ aby = 0 THEN FALSE
        ELSE IF dot <= 0 THEN acx * acx + acy * acy <= r2
        ELSE IF dot >= len2
        THEN (z.x_m - b[1]) * (z.x_m - b[1]) + (z.y_m - b[2]) * (z.y_m - b[2]) <= r2
        ELSE (acx * acx + acy * acy) * len2 - dot * dot <= r2 * len2

\* _line_intersects_nfa
line_intersects_nfa(a, b, zones) == \E i \in DOMAIN zones : ZoneHit(a, b, zones[i])

\* rotate_world_to_fireframe (utils.py:60-65) returns the pair
\* (wx_ff, wz_ff); compute_selected passes it on as req.wind_ff.  No wind.
rotate_world_to_fireframe(wx, wy) == <<wx, wy>>

\* How suggest_best(req, self.weapon, self.tables) ends for that request:
\* null for an empty catalog, otherwise by the first integrator call.
SolveOutcome(w, wind_ff) ==
    IF DOMAIN w.charges = {} THEN "none"
    ELSE IF EvalRaises([wind_ff |-> wind_ff]) THEN "raised"
    ELSE "result"

\* The guns, targets and zones tried.
GunSets == {<<<<0, 0>>>>, <<<<0, 0>>, <<40, 0>>>>}
UiTargets == {<<0, 0>>, <<0, 100>>, <<100, 0>>}
ZoneSets ==
    {<<>>,
     <<[x_m |-> 0, y_m |-> 50, radius_m |-> 10]>>,
     <<[x_m |-> 0, y_m |-> 50, radius_m |-> 30]>>,
     <<[x_m |-> 0, y_m |-> 0, radius_m |-> 10]>>,
     <<[x_m |-> 200, y_m |-> 200, radius_m |-> 10], [x_m |-> 60, y_m |-> 0, radius_m |-> 25]>>}

\* compute_selected after line 645: the three header lines are written.
UiStart(guns, target, zones, cancel, offsets) ==
    [pc |-> "gun", guns |-> guns, target |-> target, zones |-> zones,
     cancel_on_nfa |-> cancel, offsets |-> offsets, gi |-> 1,
     active |-> <<>>, ai |-> 0, header |-> 3, lines |-> <<>>, calls |-> {},
     shown |-> FALSE]

UiInputs ==
    {UiStart(g, t, z, c, o) :
        g \in GunSets, t \in UiTargets, z \in ZoneSets, c \in BOOLEAN, o \in Sheaves}

\* Where the loop over the guns goes after gun gi.
NextGun(u) == IF u.gi < Len(u.guns) THEN "gun" ELSE "finish"

\* Lines 651-667: the aim points of one gun are sorted into blocked and
\* active, the warning and the cancellation are written.
UiFilter ==
    /\ ui.pc = "gun"
    /\ LET gun_pt == ui.guns[ui.gi]
           sheaf_targets == targets_for_sheaf(gun_pt, ui.target, ui.offsets)
           Hit(aim) == line_intersects_nfa(gun_pt, aim, ui.zones)
           Kept(aim) == ~(Hit(aim) /\ ui.cancel_on_nfa)
           blocked == Cardinality({i \in DOMAIN sheaf_targets : Hit(sheaf_targets[i])})
           active_targets == SelectSeq(sheaf_targets, Kept)
           warning == IF blocked > 0
                      THEN <<[kind |-> "nfa_warning", gun |-> ui.gi, shot |-> blocked]>>
                      ELSE <<>>
           cancelled == IF active_targets = <<>>
                        THEN <<[kind |-> "cancelled", gun |-> ui.gi, shot |-> 0]>>
                        ELSE <<>>
       IN  ui' = [ui EXCEPT !.lines = @ \o warning \o cancelled,
                            !.active = active_targets,
                            !.ai = 1,
                            !.gi = IF active_targets = <<>> /\ ui.gi < Len(ui.guns)
                                   THEN @ + 1 ELSE @,
                            !.pc = IF active_targets = <<>> THEN NextGun(ui) ELSE "solve"]
    /\ UNCHANGED <<weapon, tm, loadStatus, v0Call, pc, callVars, parked, sim, fn, web>>

\* Lines 669-693: one active aim point is solved.  An exception of
\* suggest_best leaves the loops for the handler of lines 707-709.
UiSolve ==
    /\ ui.pc = "solve"
    /\ LET aim == ui.active[ui.ai]
           how == SolveOutcome(weapon, rotate_world_to_fireframe(0, 0))
           line == [kind |-> IF how = "none" THEN "not_found" ELSE "solution",
                    gun |-> ui.gi, shot |-> ui.ai]
           last == ui.ai = Len(ui.active)
       IN  IF how = "raised"
           THEN ui' = [ui EXCEPT !.calls = @ \cup {[gun |-> ui.gi, aim |-> aim]},
                                 !.pc = "error"]
           ELSE ui' = [ui EXCEPT !.calls = @ \cup {[gun |-> ui.gi, aim |-> aim]},
                                 !.lines = Append(@, line),
                                 !.ai = IF last THEN @ ELSE @ + 1,
                                 !.gi = IF last /\ ui.gi < Len(ui.guns) THEN @ + 1 ELSE @,
                                 !.pc = IF last THEN NextGun(ui) ELSE "solve"]
    /\ UNCHANGED <<weapon, tm, loadStatus, v0Call, pc, callVars, parked, sim, fn, web>>

\* Lines 695-704: the summary is shown, unless only header lines exist.
UiFinish ==
    /\ ui.pc = "finish"
    /\ ui' = IF ui.header + Len(ui.lines) <= 2
             THEN [ui EXCEPT !.pc = "error"]
             ELSE [ui EXCEPT !.pc = "done", !.shown = TRUE]
    /\ UNCHANGED <<weapon, tm, loadStatus, v0Call, pc, callVars, parked, sim, fn, web>>

UiInit ==
    /\ weapon \in {NewWeapon(Catalog(n)) : n \in 0..MaxCharges}
    /\ tm = NewTableManager
    /\ loadStatus = "none"
    /\ v0Call = None
    /\ pc = "idle"
    /\ req = NoRequest
    /\ tables = FALSE
    /\ fs = NoFrame
    /\ fastStatus = "not_called"
    /\ fastResult = None
    /\ bf = NoBrute
    /\ outcome = "none"
    /\ result = None
    /\ probe = NoProbe
    /\ parked = IdleFrame
    /\ sim = NoSim
    /\ fn = NoCall
    /\ web = NoWeb
    /\ ui \in UiInputs

UiNext ==
    \/ UiFilter
    \/ UiSolve
    \/ UiFinish

UiSpec == UiInit /\ [][UiNext]_vars

\* The segment from a to b, or the point a when they coincide, has a point
\* within the zone's radius of its centre.
PassesWithin(a, b, z) ==
    LET abx == b[1] - a[1]
        aby == b[2] - a[2]
        acx == z.x_m - a[1]
        acy == z.y_m - a[2]
        bcx == z.x_m - b[1]
        bcy == z.y_m - b[2]
        dot == acx * abx + acy * aby
        len2 == abx * abx + aby * aby
        r2 == z.radius_m * z.radius_m
    IN  \/ acx * acx + acy * acy <= r2
        \/ bcx * bcx + bcy * bcy <= r2
        \/ (0 < dot /\ dot < len2 /\ (acx * acx + acy * acy) * len2 - dot * dot <= r2 * len2)

\* The aim points of gun g, and whether one of them is blocked by a zone.
AimsOf(g) == targets_for_sheaf(ui.guns[g], ui.target, ui.offsets)
Blocked(g, aim) == \E i \in DOMAIN ui.zones : PassesWithin(ui.guns[g], aim, ui.zones[i])

\* C29: with cancel-on-NFA checked, suggest_best is never called for an aim
\* point whose gun-to-aim segment passes within the radius of a zone, and a
\* gun whose aim points are all blocked gets no firing solution line; with
\* the option unchecked every aim point of every gun is still solved.
C29_NfaCancel ==
    /\ ui.pc # "idle" =>
          /\ ui.cancel_on_nfa =>
                /\ \A c \in ui.calls : ~Blocked(c.gun, c.aim)
                /\ \A g \in DOMAIN ui.guns :
                       (\A i \in DOMAIN AimsOf(g) : Blocked(g, AimsOf(g)[i]))
                       => \A k \in DOMAIN ui.lines :
                              ~(ui.lines[k].gun = g /\ ui.lines[k].kind \in {"solution", "not_found"})
          /\ (~ui.cancel_on_nfa /\ ui.pc \in {"done", "error"}) =>
                \A g \in DOMAIN ui.guns : \A i \in DOMAIN AimsOf(g) :
                    [gun |-> g, aim |-> AimsOf(g)[i]] \in ui.calls

----------------------------------------------------------------------------
(* The coordinate poll (ui.py:140-143, 264-267, 814-847): the timer calls  *)
(* _web_poll on the UI thread, each fetch runs on a thread of its own.     *)
(* Steps are the statements between which the threads can interleave; a    *)
(* "with self._net_lock" block is one step.  A payload is named by the     *)
(* number of the worker that fetched it, None is 0.                        *)

\* Fetch workers started in one behaviour.
MaxFetches == 3

\* The window after __init__; has_base says whether the URL field is filled.
WebStart(has_base) ==
    [pc |-> "timer", has_base |-> has_base,
     pending_web_payload |-> 0, web_poll_busy |-> FALSE, pending |-> 0,
     workers |-> {}, started |-> 0, processed |-> <<>>, overwritten |-> {}]

\* Lines 816-818: the timer fires and the poll takes the stored payload.
PollConsume ==
    /\ web.pc = "timer"
    /\ web' = [web EXCEPT !.pending = web.pending_web_payload,
                          !.pending_web_payload = 0,
                          !.pc = IF web.pending_web_payload # 0 THEN "process" ELSE "check"]
    /\ UNCHANGED <<weapon, tm, loadStatus, v0Call, pc, callVars, parked, sim, fn, ui>>

\* Lines 819-820: _web_process_payload(pending).
PollProcess ==
    /\ web.pc = "process"
    /\ web' = [web EXCEPT !.processed = Append(@, web.pending), !.pc = "check"]
    /\ UNCHANGED <<weapon, tm, loadStatus, v0Call, pc, callVars, parked, sim, fn, ui>>

\* Lines 823-847: return while a fetch is in flight, else start the next.
PollStart ==
    /\ web.pc = "check"
    /\ web.web_poll_busy \/ web.started < MaxFetches
    /\ web' = IF web.web_poll_busy
              THEN [web EXCEPT !.pc = "timer"]
              ELSE [web EXCEPT !.web_poll_busy = TRUE,
                               !.started = @ + 1,
                               !.workers = @ \cup {[id |-> web.started + 1, at |-> "fetch",
                                                    payload |-> 0]},
                               !.pc = "timer"]
    /\ UNCHANGED <<weapon, tm, loadStatus, v0Call, pc, callVars, parked, sim, fn, ui>>

\* Lines 829-842: the two requests; payload stays None without a base URL.
WorkerFetch(w) ==
    /\ w \in web.workers /\ w.at = "fetch"
    /\ web' = [web EXCEPT !.workers = (@ \ {w}) \cup
                  {[w EXCEPT !.at = "store",
                             !.payload = IF web.has_base THEN w.id ELSE 0]}]
    /\ UNCHANGED <<weapon, tm, loadStatus, v0Call, pc, callVars, parked, sim, fn, ui>>

\* Lines 843-844: the payload is stored under the lock, over whatever the
\* field holds.
WorkerStore(w) ==
    /\ w \in web.workers /\ w.at = "store"
    /\ web' = [web EXCEPT !.pending_web_payload = w.payload,
                          !.overwritten = IF web.pending_web_payload # 0
                                          THEN @ \cup {web.pending_web_payload} ELSE @,
                          !.workers = (@ \ {w}) \cup {[w EXCEPT !.at = "clear"]}]
    /\ UNCHANGED <<weapon, tm, loadStatus, v0Call, pc, callVars, parked, sim, fn, ui>>

\* Line 845: the busy flag is cleared, outside the lock; the thread ends.
WorkerClear(w) ==
    /\ w \in web.workers /\ w.at = "clear"
    /\ web' = [web EXCEPT !.web_poll_busy = FALSE, !.workers = @ \ {w}]
    /\ UNCHANGED <<weapon, tm, loadStatus, v0Call, pc, callVars, parked, sim, fn, ui>>

WebInit ==
    /\ weapon = NewWeapon(Catalog(MaxCharges))
    /\ tm = NewTableManager
    /\ loadStatus = "none"
    /\ v0Call = None
    /\ pc = "idle"
    /\ req = NoRequest
    /\ tables = FALSE
    /\ fs = NoFrame
    /\ fastStatus = "not_called"
    /\ fastResult = None
    /\ bf = NoBrute
    /\ outcome = "none"
    /\ result = None
    /\ probe = NoProbe
    /\ parked = IdleFrame
    /\ sim = NoSim
    /\ fn = NoCall
    /\ ui = NoUi
    /\ web \in {WebStart(b) : b \in BOOLEAN}

WebNext ==
    \/ PollConsume
    \/ PollProcess
    \/ PollStart
    \/ \E w \in web.workers : WorkerFetch(w)
    \/ \E w \in web.workers : WorkerStore(w)
    \/ \E w \in web.workers : WorkerClear(w)

WebSpec == WebInit /\ [][WebNext]_vars

\* C30: for any interleaving of the timer's _web_poll calls with the fetch
\* worker, at most one worker is in flight, and a payload a worker stored in
\* _pending_web_payload is never overwritten by another worker before a poll
\* has consumed it and never processed twice.
C30_PollHandoff ==
    web.pc # "idle" =>
        /\ Cardinality(web.workers) <= 1
        /\ web.overwritten = {}
        /\ \A i, j \in DOMAIN web.processed :
               i # j => web.processed[i] # web.processed[j]

====
